---- MODULE Spec2Model ----
(***************************************************************************)
(* Message propagation tracking, leak scoring and the monitoring loops of  *)
(* Zillagram.                                                              *)
(*                                                                         *)
(* Time is counted in hours.  Scores that the Python code keeps as floats  *)
(* in [0,1] are kept as integer percentages (0.4 is 40, 0.8 is 80).        *)
(* Python's None is the value None below; a Python dict is a record and    *)
(* dict.get(key, default) is the operator Get.                             *)
(***************************************************************************)
EXTENDS Integers, Sequences, FiniteSets, TLC

(***************************************************************************)
(* Bounds of the model.                                                    *)
(***************************************************************************)
\* Largest number of stored messages.
MaxMsgs == 2
\* Largest number of consecutive failing cycles of a monitoring loop.
MaxFails == 3
\* Largest number of fingerprint computations on one engine.
MaxCalls == 3
\* Number of analyses running concurrently.
NumTasks == 2
\* Largest number of messages a forwarding network is built from.
NetMsgs == 2
\* Number of check_rate_limit calls of one client for one endpoint.
NumCalls == 2
\* Largest number of sessions created by the session manager.
MaxSessions == 2
\* Largest number of geolocation traps set up by the trap engine.
MaxTraps == 2
\* Largest number of alerts triggered at the alert manager.
MaxAlerts == 1
\* Largest number of keys in the key database.
MaxKeys == 3
\* Largest number of tasks submitted to the worker manager.
MaxTasks == 3

\* Sender ids and chat ids of the ingested messages.
Users == {1, 2}
Chats == {1, 2}
Texts == {"", "a"}
\* Timestamps in hours: 0 and 1 are one hour apart (t=0 and t=3600 s),
\* 30 is more than 24 hours after both.
Dates == {0, 1, 30}
\* Values the clock can show when a query reads it: at 1 every timestamp of
\* Dates is inside the seven-day window, at 180 only 30 is.
Clock == {1, 180}

None == 0

VARIABLES
    store,      \* rows of the messages table, in insertion order
    result,     \* the call in progress: what it returns to its caller
    mon,        \* the monitoring loops, one record per loop
    fields,     \* the fields of the engine, monitor and fingerprinter objects
    fplog,      \* the fingerprints computed so far, with their messages
    tasks,      \* the analyses running concurrently, one record per coroutine
    limiter,    \* AdaptiveRateLimiter: request counters and calls in progress
    workers,    \* EnterpriseWorkerManager: task queue, workers, distributor
    sessions,   \* SecureSessionManager: active sessions and the last call
    operations, \* RealTimeCounterIntelMonitor: active_operations and traps
    alerts,     \* AlertManager: active alerts and their escalation timers
    keys,       \* KeyManagementSystem: key records and key material
    install     \* UninstallManager: files on disk and the uninstall in progress

\* The variables of message tracking, and those of the platform services.
messaging == <<store, result, mon, fields, fplog, tasks>>
platform == <<limiter, workers, sessions, operations, alerts, keys, install>>

vars == <<messaging, platform>>

\* The value of a variable whose object has not been constructed.
NotConstructed == "not constructed"

PlatformNotConstructed ==
    /\ limiter = NotConstructed
    /\ workers = NotConstructed
    /\ sessions = NotConstructed
    /\ operations = NotConstructed
    /\ alerts = NotConstructed
    /\ keys = NotConstructed
    /\ install = NotConstructed

MessagingNotConstructed ==
    /\ store = << >>
    /\ result = [op |-> "none"]
    /\ mon = NotConstructed
    /\ fields = NotConstructed
    /\ fplog = << >>
    /\ tasks = << >>

MessageIds == 1..Len(store)

Get(d, k, default) == IF k \in DOMAIN d THEN d[k] ELSE default

(***************************************************************************)
(* Fingerprints.  A SHA-256 digest is modelled as the value it digests     *)
(* (collision-free hashing), a concatenation of digests as a tuple.        *)
(* Texts are the stored texts; "A" and "a " are the variants of "a" in     *)
(* letter case and in whitespace.                                          *)
(***************************************************************************)
\* str.lower()
Lower(text) == IF text = "A" THEN "a" ELSE text

\* Lower-case, whitespace collapsed and stripped.
_normalize_text(text) == IF text \in {"A", "a "} THEN "a" ELSE text

\* Digest of the character n-grams of the raw text.
_generate_ngram_hash(text) == <<"ngram", text>>

_generate_content_hash(text) ==
    <<_normalize_text(text), Lower(text), _generate_ngram_hash(text)>>

_generate_semantic_hash(text) == <<"semantic", text>>

\* Digest of the style metrics of the text.
_analyze_writing_style(text) == <<"style", text>>

\* text = message.get('text', '')
create_message_fingerprint(message) ==
    LET text == Get(message, "text", "")
    IN  [content_hash    |-> _generate_content_hash(text),
         semantic_hash   |-> _generate_semantic_hash(text),
         style_signature |-> _analyze_writing_style(text)]

\* Similarity of a stored row to the target fingerprint, in percent.
_calculate_semantic_similarity(target_fingerprint, msg) ==
    IF create_message_fingerprint(msg).semantic_hash
          = target_fingerprint.semantic_hash
    THEN 100 ELSE 0

SimilarityThreshold == 80
WindowHours == 168

(***************************************************************************)
(* CrossChatCorrelationEngine._find_similar_messages.  The free name       *)
(* target_message of the second query is the message being tracked.        *)
(***************************************************************************)
\* The rows of the first query: content_hash or semantic_hash equal.
exact_matches(target_fingerprint) ==
    SelectSeq(store, LAMBDA row :
        \/ create_message_fingerprint(row).content_hash
              = target_fingerprint.content_hash
        \/ create_message_fingerprint(row).semantic_hash
              = target_fingerprint.semantic_hash)

\* The second query without its date condition: every row of another chat
\* is compared, whatever its age.
near_matches_unbounded(target_fingerprint, target_message, now) ==
    LET all_recent_messages ==
            SelectSeq(store, LAMBDA row :
                row.chat_id # target_message.chat_id)
    IN  SelectSeq(all_recent_messages, LAMBDA msg :
            _calculate_semantic_similarity(target_fingerprint, msg)
                > SimilarityThreshold)

\* The rows of the second query (date > now - 7 days, another chat) that
\* pass the similarity threshold.
near_matches(target_fingerprint, target_message, now) ==
    LET all_recent_messages ==
            SelectSeq(store, LAMBDA row :
                /\ row.date > now - WindowHours
                /\ row.chat_id # target_message.chat_id)
    IN  SelectSeq(all_recent_messages, LAMBDA msg :
            _calculate_semantic_similarity(target_fingerprint, msg)
                > SimilarityThreshold)

_find_similar_messages(target_fingerprint, target_message, now) ==
    exact_matches(target_fingerprint)
        \o near_matches(target_fingerprint, target_message, now)

(***************************************************************************)
(* sorted(similar_messages, key=date): a stable insertion sort.            *)
(***************************************************************************)
RECURSIVE InsertByDate(_, _)
InsertByDate(sorted, m) ==
    IF sorted = << >> THEN <<m>>
    ELSE IF sorted[Len(sorted)].date <= m.date THEN Append(sorted, m)
    ELSE Append(InsertByDate(SubSeq(sorted, 1, Len(sorted) - 1), m),
                sorted[Len(sorted)])

RECURSIVE SortedByDate(_)
SortedByDate(msgs) ==
    IF msgs = << >> THEN << >>
    ELSE InsertByDate(SortedByDate(SubSeq(msgs, 1, Len(msgs) - 1)),
                      msgs[Len(msgs)])

MaxForwardHours == 24

\* Edit distance of two texts of at most one character.
EditDistance(a, b) == IF a = b THEN 0 ELSE 1

TextLen(t) == IF t = "" THEN 0 ELSE 1

\* The "is likely forward" test: time delta at most 24 h and edit distance
\* at most 20% of the message length.
_is_likely_forward(prev_msg, current_msg) ==
    /\ current_msg.date - prev_msg.date <= MaxForwardHours
    /\ 5 * EditDistance(prev_msg.text, current_msg.text)
          <= TextLen(prev_msg.text)

(***************************************************************************)
(* CrossChatCorrelationEngine._reconstruct_propagation_path.  PathLoop is  *)
(* the for loop from index i on; the state of the loop is                  *)
(* (propagation_path, current_chain).                                      *)
(***************************************************************************)
\* The candidate is appended whatever the test says.
ContinuesChain_always(prev_msg, current_msg) == TRUE

\* "Check if this continues the chain": the test of the loop body.
ContinuesChain(prev_msg, current_msg) ==
    _is_likely_forward(prev_msg, current_msg)

RECURSIVE PathLoop(_, _, _, _)
PathLoop(sorted_messages, i, propagation_path, current_chain) ==
    IF i > Len(sorted_messages)
    THEN IF Len(current_chain) > 1
         THEN Append(propagation_path, current_chain)
         ELSE propagation_path
    ELSE LET current_msg == sorted_messages[i]
             prev_msg    == current_chain[Len(current_chain)]
         IN  IF ContinuesChain(prev_msg, current_msg)
             THEN PathLoop(sorted_messages, i + 1, propagation_path,
                           Append(current_chain, current_msg))
             ELSE PathLoop(sorted_messages, i + 1,
                           IF Len(current_chain) > 1
                           THEN Append(propagation_path, current_chain)
                           ELSE propagation_path,
                           <<current_msg>>)

\* The same without the sort: candidates are linked in storage order.
_reconstruct_propagation_path_unsorted(similar_messages) ==
    IF similar_messages = << >> THEN << >>
    ELSE PathLoop(similar_messages, 2, << >>, <<similar_messages[1]>>)

_reconstruct_propagation_path(similar_messages) ==
    IF similar_messages = << >> THEN << >>
    ELSE LET sorted_messages == SortedByDate(similar_messages)
         IN  PathLoop(sorted_messages, 2, << >>, <<sorted_messages[1]>>)

\* CrossChatCorrelationEngine.track_message_propagation; the dict it builds
\* from similar_messages is propagation_analysis_of.  Of the keys of the
\* returned dict (original_source, propagation_path, forwarding_network,
\* leakage_points, trust_metrics) only propagation_path is modelled; the
\* list similar_messages is a local and not a key of the dict.
propagation_analysis_of(similar_messages) ==
    [propagation_path |-> _reconstruct_propagation_path(similar_messages)]

track_message_propagation(target_message, now) ==
    LET target_fingerprint == create_message_fingerprint(target_message)
        similar_messages ==
            _find_similar_messages(target_fingerprint, target_message, now)
    IN  propagation_analysis_of(similar_messages)

(***************************************************************************)
(* The similarity search while the persistence layer is down.  The         *)
(* statements of _find_similar_messages that reach the database are        *)
(* sqlite3.connect and the two cursor.execute; each raises                 *)
(* sqlite3.OperationalError when the database cannot be read.  A call      *)
(* returns [raised |-> TRUE] when an exception leaves it, and its value    *)
(* under value or out otherwise.                                           *)
(***************************************************************************)
DatabaseStatements == {"connect", "exact_query", "recent_query"}

\* The search catches the error and returns the rows read so far.
_find_similar_messages_swallowed(target_fingerprint, failing_at) ==
    [raised |-> FALSE,
     value  |-> IF failing_at = "recent_query"
                THEN exact_matches(target_fingerprint) ELSE << >>]

\* No statement of the method is inside a try: the error leaves it.
_find_similar_messages_unavailable(target_fingerprint, failing_at) ==
    [raised |-> TRUE]

\* track_message_propagation has no try around the await either.
track_message_propagation_unavailable(target_message, failing_at) ==
    LET similar_messages ==
            _find_similar_messages_unavailable(
                create_message_fingerprint(target_message), failing_at)
    IN  IF similar_messages.raised THEN [raised |-> TRUE]
        ELSE [raised |-> FALSE,
              out |-> propagation_analysis_of(similar_messages.value)]

(***************************************************************************)
(* SourceAttributionEngine._reconstruct_forwarding_chain.                  *)
(*                                                                         *)
(* _find_previous_version is the function prev, an input of the walk: it   *)
(* maps a message to None or to another stored message with a matching     *)
(* fingerprint and a timestamp that is not later.                          *)
(***************************************************************************)
max_iterations == 10

Matches(a, b) ==
    \/ create_message_fingerprint(a).content_hash
          = create_message_fingerprint(b).content_hash
    \/ create_message_fingerprint(a).semantic_hash
          = create_message_fingerprint(b).semantic_hash

PreviousVersionCandidates(m) ==
    {n \in MessageIds \ {m} :
        /\ Matches(store[n], store[m])
        /\ store[n].date <= store[m].date}

_find_previous_version ==
    {prev \in [MessageIds -> MessageIds \cup {None}] :
        \A m \in MessageIds :
            prev[m] = None \/ prev[m] \in PreviousVersionCandidates(m)}

RECURSIVE Reversed(_)
Reversed(s) ==
    IF s = << >> THEN << >>
    ELSE Append(Reversed(SubSeq(s, 2, Len(s))), s[1])

\* The loop test off by one: iteration <= max_iterations.
ChainLoopTest_off_by_one(iteration) == iteration <= max_iterations

\* The loop test of the walk; current_message is a non-empty dict, always
\* true in Python.
ChainLoopTest(iteration) == iteration < max_iterations

\* The while loop; returns the chain in walk order with the number of
\* completed iterations.
RECURSIVE ChainLoop(_, _, _, _)
ChainLoop(prev, current_message, chain, iteration) ==
    IF ChainLoopTest(iteration)
    THEN LET previous_version == prev[current_message.id]
         IN  IF previous_version # None
             THEN ChainLoop(prev, store[previous_version],
                      Append(chain,
                             [message   |-> store[previous_version],
                              forwarder |-> current_message.user_id,
                              timestamp |-> current_message.date]),
                      iteration + 1)
             ELSE [chain |-> Append(chain,
                                 [message   |-> current_message,
                                  status    |-> "original",
                                  timestamp |-> current_message.date]),
                   iteration |-> iteration + 1]
    ELSE [chain |-> chain, iteration |-> iteration]

_reconstruct_forwarding_chain(message, prev) ==
    LET walk == ChainLoop(prev, message, << >>, 0)
    IN  [chain |-> Reversed(walk.chain), iterations |-> walk.iteration]

(***************************************************************************)
(* RealTimeForwardingMonitor.analyze_message_leakage and its helpers.      *)
(***************************************************************************)
alert_threshold == 70

LowRelationshipScore == 30

\* What the trust/relationship score provider does when it is asked:
\* it raises, or it returns this score (percent).
ProviderBehaviours ==
    {[throws |-> TRUE, score |-> 0],
     [throws |-> FALSE, score |-> 10],
     [throws |-> FALSE, score |-> 50]}

\* The loop of _check_trust_network over the similar messages from position
\* i on: [raised, value].
RECURSIVE TrustLoop(_, _, _, _)
TrustLoop(similar, i, original_chat, provider) ==
    IF i > Len(similar) THEN [raised |-> FALSE, value |-> FALSE]
    ELSE IF similar[i].chat_id # original_chat
         THEN IF provider.throws
              THEN [raised |-> TRUE, value |-> FALSE]
              ELSE IF provider.score < LowRelationshipScore
                   THEN [raised |-> FALSE, value |-> TRUE]
                   ELSE TrustLoop(similar, i + 1, original_chat, provider)
         ELSE TrustLoop(similar, i + 1, original_chat, provider)

_check_trust_network(original_message, propagation, provider) ==
    TrustLoop(Get(propagation, "similar_messages", << >>), 1,
              original_message.chat_id, provider)

\* Scores _check_temporal_proximity can return (percent): inversely
\* proportional to the elapsed time, so not bounded by 100, and negative when
\* the elapsed time is.
TemporalScores == {-100, 50, 400}

Clamp(x) == IF x < 0 THEN 0 ELSE IF x > 100 THEN 100 ELSE x

\* The weighted sum without the clamp.
_calculate_leak_confidence_unclamped(leak_indicators) ==
    (  40 * (IF leak_indicators.cross_chat_appearance THEN 100 ELSE 0)
     + 30 * leak_indicators.temporal_proximity
     + 30 * (IF leak_indicators.trust_network_violation THEN 100 ELSE 0))
    \div 100

\* Weighted sum of the three terms, clamped to [0,1].
_calculate_leak_confidence(leak_indicators) ==
    Clamp((  40 * (IF leak_indicators.cross_chat_appearance THEN 100 ELSE 0)
           + 30 * leak_indicators.temporal_proximity
           + 30 * (IF leak_indicators.trust_network_violation THEN 100 ELSE 0))
          \div 100)

\* Position of the first member of chain whose chat differs from the chat
\* of the member before it, 0 when there is none.
FirstCrossing(chain) ==
    LET crossings == {i \in 2..Len(chain) :
                         chain[i].chat_id # chain[i - 1].chat_id}
    IN  IF crossings = {} THEN 0
        ELSE CHOOSE i \in crossings : \A j \in crossings : i <= j

\* The sender of the first member of the chain is named, the origin
\* instead of the first to cross a chat boundary.
_identify_primary_leaker_origin_sender(propagation_analysis) ==
    LET path == propagation_analysis.propagation_path
    IN  IF path = << >> THEN None ELSE path[1][1].user_id

_identify_primary_leaker(propagation_analysis) ==
    LET path == propagation_analysis.propagation_path
    IN  IF path = << >> \/ FirstCrossing(path[1]) = 0 THEN None
        ELSE path[1][FirstCrossing(path[1])].user_id

\* The part of analyze_message_leakage after the await of
\* track_message_propagation.  Returns [raised |-> TRUE] when an exception
\* leaves the method, and the returned dict under out otherwise.
leak_assessment_of(message, propagation_analysis, temporal, provider) ==
    LET trust == _check_trust_network(message, propagation_analysis, provider)
        leak_indicators ==
            [cross_chat_appearance |->
                 Len(Get(propagation_analysis, "similar_messages", << >>)) > 1,
             temporal_proximity |-> temporal,
             trust_network_violation |-> trust.value]
    IN  IF trust.raised THEN [raised |-> TRUE]
        ELSE [raised |-> FALSE,
              out |-> [message_id |-> message.id,
                       leak_confidence |->
                           _calculate_leak_confidence(leak_indicators),
                       leak_indicators |-> leak_indicators,
                       propagation_path |->
                           Get(propagation_analysis, "propagation_path", << >>),
                       suspected_leaker |->
                           _identify_primary_leaker(propagation_analysis)]]

analyze_message_leakage(message, now, temporal, provider) ==
    leak_assessment_of(message, track_message_propagation(message, now),
                       temporal, provider)

(***************************************************************************)
(* Actions on the message store.                                           *)
(***************************************************************************)
MonIdle ==
    [forwarding    |-> [pc |-> "idle"],
     manipulation  |-> [pc |-> "idle"],
     counter_intel |-> [pc |-> "idle"]]

\* The fields the constructors assign: the empty message_graph of the
\* correlation engine, the empty suspected_leaks and the alert_threshold of
\* the forwarding monitor, the unfitted vectorizer and the
\* known_forwarded_patterns of the fingerprinting engine.
InitFields ==
    [message_graph            |-> << >>,
     suspected_leaks          |-> {},
     alert_threshold          |-> alert_threshold,
     vectorizer               |-> {},
     known_forwarded_patterns |-> {}]

Init ==
    /\ store = << >>
    /\ result = [op |-> "none"]
    /\ mon = MonIdle
    /\ fields = InitFields
    /\ fplog = << >>
    /\ tasks = << >>
    /\ PlatformNotConstructed

\* No call of the engine or the monitor is in progress.
NoCall == result.op = "none"

\* The ingestion feed stores one message.
Ingest ==
    /\ NoCall
    /\ Len(store) < MaxMsgs
    /\ \E u \in Users, c \in Chats, t \in Texts, d \in Dates :
          store' = Append(store, [id |-> Len(store) + 1, user_id |-> u,
                                  chat_id |-> c, text |-> t, date |-> d])
    /\ UNCHANGED <<result, mon, fields, fplog, tasks, platform>>

\* One call of track_message_propagation.  Beside the returned dict (out)
\* the record keeps the two lists the call built in _find_similar_messages.
TrackMessagePropagation ==
    /\ NoCall
    /\ \E target \in MessageIds, now \in Clock :
          LET target_fingerprint ==
                  create_message_fingerprint(store[target])
          IN  result' =
                  [op |-> "track", target |-> target, now |-> now,
                   exact_matches |-> exact_matches(target_fingerprint),
                   near_matches  |-> near_matches(target_fingerprint,
                                                  store[target], now),
                   out |-> track_message_propagation(store[target], now)]
    /\ UNCHANGED <<store, mon, fields, fplog, tasks, platform>>

\* One call of track_message_propagation while the database cannot be
\* read: the statement of _find_similar_messages named by failing_at raises.
TrackMessagePropagationUnavailable ==
    /\ NoCall
    /\ \E target \in MessageIds, failing_at \in DatabaseStatements :
          result' = [op |-> "track_unavailable", target |-> target,
                     failing_at |-> failing_at,
                     ret |-> track_message_propagation_unavailable(
                                 store[target], failing_at)]
    /\ UNCHANGED <<store, mon, fields, fplog, tasks, platform>>

ReconstructForwardingChain ==
    /\ NoCall
    /\ \E target \in MessageIds, prev \in _find_previous_version :
          result' = [op |-> "chain", target |-> target, prev |-> prev,
                     out |-> _reconstruct_forwarding_chain(store[target],
                                                           prev)]
    /\ UNCHANGED <<store, mon, fields, fplog, tasks, platform>>

AnalyzeMessageLeakage ==
    /\ NoCall
    /\ \E target \in MessageIds, now \in Clock, temporal \in TemporalScores,
          provider \in ProviderBehaviours :
          result' = [op |-> "analyze", target |-> target,
                     provider |-> provider,
                     ret |-> analyze_message_leakage(store[target], now,
                                                     temporal, provider)]
    /\ UNCHANGED <<store, mon, fields, fplog, tasks, platform>>

\* The caller takes the returned value.
Return ==
    /\ ~NoCall
    /\ result' = [op |-> "none"]
    /\ UNCHANGED <<store, mon, fields, fplog, tasks, platform>>

Next ==
    \/ Ingest
    \/ TrackMessagePropagation
    \/ TrackMessagePropagationUnavailable
    \/ ReconstructForwardingChain
    \/ AnalyzeMessageLeakage
    \/ Return

Spec == Init /\ [][Next]_vars

(***************************************************************************)
(* Properties of reconstruction and scoring, checked under Spec.           *)
(***************************************************************************)
Tracked == result.op = "track"
Walked == result.op = "chain"
Analyzed == result.op = "analyze" /\ ~result.ret.raised

NoRepeat(ids) == \A i, j \in 1..Len(ids) : i # j => ids[i] # ids[j]

IdsOf(chain) == [i \in 1..Len(chain) |-> chain[i].id]

\* The messages the backward walk visited, from the original to the target:
\* the message of every forwarding entry, then the target itself.
HopEntries(chain) == SelectSeq(chain, LAMBDA e : "forwarder" \in DOMAIN e)

WalkedIds(target, chain) ==
    Append([i \in 1..Len(HopEntries(chain)) |->
                HopEntries(chain)[i].message.id], target)

\* C1: no message id appears more than once in a chain returned by
\* reconstruction, neither in a chain of the propagation path nor among the
\* messages visited by the forwarding-chain walk.
C1_NoMessageTwice ==
    /\ Tracked =>
          \A k \in 1..Len(result.out.propagation_path) :
              NoRepeat(IdsOf(result.out.propagation_path[k]))
    /\ Walked => NoRepeat(WalkedIds(result.target, result.out.chain))

NonDecreasing(ts) == \A i \in 1..(Len(ts) - 1) : ts[i] <= ts[i + 1]

\* C2: in every chain of the propagation path and in the forwarding chain,
\* the timestamps of consecutive members are non-decreasing.
C2_TimestampsNonDecreasing ==
    /\ Tracked =>
          \A k \in 1..Len(result.out.propagation_path) :
              LET chain == result.out.propagation_path[k]
              IN  NonDecreasing([i \in 1..Len(chain) |-> chain[i].date])
    /\ Walked =>
          NonDecreasing([i \in 1..Len(result.out.chain) |->
                             result.out.chain[i].timestamp])

\* A chain was returned whose members were stored in the opposite order of
\* their timestamps: the sort moved the later-stored message to the front.
C2_Witness ==
    /\ Tracked
    /\ \E k \in 1..Len(result.out.propagation_path) :
          LET chain == result.out.propagation_path[k]
          IN  \E i \in 1..(Len(chain) - 1) :
                  /\ chain[i].date < chain[i + 1].date
                  /\ chain[i].id > chain[i + 1].id

\* C3: the leak_confidence of every assessment lies in [0,1].
C3_LeakConfidenceInRange ==
    Analyzed => result.ret.out.leak_confidence \in 0..100

\* An assessment whose weighted sum is above 1 (0.3 * 4.0) and was clamped.
C3_Witness ==
    /\ Analyzed
    /\ result.ret.out.leak_indicators.temporal_proximity = 400
    /\ result.ret.out.leak_confidence = 100

\* C4: the backward walk makes at most 10 iterations and returns a chain of
\* at most 10 entries.
C4_WalkBounded ==
    Walked => /\ result.out.iterations <= 10
              /\ Len(result.out.chain) <= 10

FoundOriginal(chain) ==
    \E i \in 1..Len(chain) : "status" \in DOMAIN chain[i]

\* A walk over a previous-version relation that never reaches an original:
\* it stopped at the cap with 10 entries.
C4_Witness ==
    /\ Walked
    /\ ~FoundOriginal(result.out.chain)
    /\ result.out.iterations = 10
    /\ Len(result.out.chain) = 10

\* The returned value, or one of the entries of the returned chain, carries
\* MaxHopsExceeded = true.
CarriesMaxHopsExceeded(out) ==
    \/ Get(out, "MaxHopsExceeded", FALSE)
    \/ \E i \in 1..Len(out.chain) :
          Get(out.chain[i], "MaxHopsExceeded", FALSE)

\* C5: the result of the walk carries MaxHopsExceeded = true exactly when the
\* walk reached the cap without finding an original message.
C5_MaxHopsExceededFlag ==
    Walked =>
        (CarriesMaxHopsExceeded(result.out)
            <=> ~FoundOriginal(result.out.chain))

\* C8: when the trust provider throws, the scorer still returns an
\* assessment, flagged confidence_degraded, with a leak_confidence in [0,1].
C8_DegradesGracefully ==
    (result.op = "analyze" /\ result.provider.throws) =>
        /\ ~result.ret.raised
        /\ Get(result.ret.out, "confidence_degraded", FALSE)
        /\ result.ret.out.leak_confidence \in 0..100

CrossesChats(chain) ==
    \E i, j \in 1..Len(chain) : chain[i].chat_id # chain[j].chat_id

\* C9: cross_chat_appearance is true exactly when two members of a chain of
\* the message's propagation path belong to different chats.
C9_CrossChatAppearance ==
    Analyzed =>
        (result.ret.out.leak_indicators.cross_chat_appearance
            <=> \E k \in 1..Len(result.ret.out.propagation_path) :
                    CrossesChats(result.ret.out.propagation_path[k]))

\* The store of the scenario: A in chat 1 at t=0, B in chat 2 one hour later,
\* identical text.
ScenarioAB ==
    /\ Len(store) = 2
    /\ store[1].chat_id = 1 /\ store[1].date = 0
    /\ store[2].chat_id = 2 /\ store[2].date = 1
    /\ store[1].text = "a" /\ store[2].text = "a"

\* C10: in the scenario, reconstructing B yields exactly the chain [A, B],
\* and the assessment of B has cross_chat_appearance = true and
\* leak_confidence > 0.4.
C10_ScenarioAB ==
    /\ (ScenarioAB /\ Tracked /\ result.target = 2) =>
          result.out.propagation_path = <<<<store[1], store[2]>>>>
    /\ (ScenarioAB /\ Analyzed /\ result.target = 2) =>
          /\ result.ret.out.propagation_path = <<<<store[1], store[2]>>>>
          /\ result.ret.out.leak_indicators.cross_chat_appearance
          /\ result.ret.out.leak_confidence > 40

\* No other stored message has a fingerprint matching the target's: the
\* target has no ancestor.
NoOtherMatch(target) ==
    \A n \in MessageIds \ {target} : ~Matches(store[n], store[target])

\* C11: for a target without ancestors, reconstruction returns exactly one
\* chain element, the target itself, both as propagation path and as
\* forwarding chain.
C11_SingleElementChain ==
    /\ (Tracked /\ NoOtherMatch(result.target)) =>
          result.out.propagation_path = <<<<store[result.target]>>>>
    /\ (Walked /\ NoOtherMatch(result.target)) =>
          /\ Len(result.out.chain) = 1
          /\ result.out.chain[1].message = store[result.target]

IsIn(x, seq) == \E i \in 1..Len(seq) : seq[i] = x

\* C14: two distinct messages with empty text are not treated as duplicates
\* of each other: tracking one returns the other neither as exact nor as
\* near match, and no chain of the propagation path holds both.
C14_EmptyTextsNeverDuplicates ==
    Tracked =>
        \A other \in MessageIds \ {result.target} :
            (store[result.target].text = "" /\ store[other].text = "") =>
                /\ ~IsIn(store[other], result.exact_matches)
                /\ ~IsIn(store[other], result.near_matches)
                /\ \A k \in 1..Len(result.out.propagation_path) :
                       ~(/\ IsIn(store[other], result.out.propagation_path[k])
                         /\ IsIn(store[result.target],
                                 result.out.propagation_path[k]))

\* The candidates of the call in progress in the order the loop visits them.
Visited == SortedByDate(result.exact_matches \o result.near_matches)

\* chain is the run of visited candidates from position first on, a
\* candidate before it and a candidate after it having failed the test.
IsRunFrom(chain, first) ==
    LET last == first + Len(chain) - 1
    IN  /\ last <= Len(Visited)
        /\ chain = SubSeq(Visited, first, last)
        /\ first > 1 =>
              ~_is_likely_forward(Visited[first - 1], Visited[first])
        /\ last < Len(Visited) =>
              ~_is_likely_forward(Visited[last], Visited[last + 1])

\* C15: the candidates are visited in ascending order of timestamp, every
\* two adjacent members of a returned chain pass the is-likely-forward test,
\* and a chain ends where a candidate fails the test against its last
\* member: that candidate starts another chain.
C15_AdjacentMembersLikelyForward ==
    Tracked =>
        /\ NonDecreasing([i \in 1..Len(Visited) |-> Visited[i].date])
        /\ \A k \in 1..Len(result.out.propagation_path) :
              LET chain == result.out.propagation_path[k]
              IN  /\ \A i \in 1..(Len(chain) - 1) :
                        _is_likely_forward(chain[i], chain[i + 1])
                  /\ \E first \in 1..Len(Visited) : IsRunFrom(chain, first)

\* A chain was returned and a later candidate, more than 24 hours after the
\* last member of the chain, was left out of it.
C15_Witness ==
    /\ Tracked
    /\ Len(result.out.propagation_path) = 1
    /\ LET chain == result.out.propagation_path[1]
       IN  /\ Len(chain) < Len(Visited)
           /\ chain = SubSeq(Visited, 1, Len(chain))
           /\ ~_is_likely_forward(Visited[Len(chain)],
                                  Visited[Len(chain) + 1])

\* Member i of chain is in another chat than the member before it.
CrossesBoundaryAt(chain, i) == chain[i].chat_id # chain[i - 1].chat_id

\* C17: the suspected_leaker of an assessment is the sender of the first
\* member of the message's chain that is in another chat than the member
\* before it; without such a member no leaker is designated.
C17_SuspectedLeaker ==
    Analyzed =>
        LET path   == result.ret.out.propagation_path
            leaker == result.ret.out.suspected_leaker
        IN  IF path = << >>
            THEN leaker = None
            ELSE LET chain == path[1]
                 IN  \/ /\ leaker = None
                        /\ \A i \in 2..Len(chain) :
                              ~CrossesBoundaryAt(chain, i)
                     \/ \E i \in 2..Len(chain) :
                           /\ CrossesBoundaryAt(chain, i)
                           /\ \A j \in 2..(i - 1) :
                                 ~CrossesBoundaryAt(chain, j)
                           /\ leaker = chain[i].user_id

\* An assessment that names a leaker who is not the sender of the origin.
C17_Witness ==
    /\ Analyzed
    /\ result.ret.out.suspected_leaker # None
    /\ result.ret.out.suspected_leaker
          # result.ret.out.propagation_path[1][1].user_id

\* The stored message n is older than seven days when the call in progress
\* reads the clock.
OutsideWindow(n) == store[n].date <= result.now - 7 * 24

\* C19: no stored message whose timestamp lies outside the seven-day window
\* is returned as a near match, whatever its similarity to the target.
C19_NearMatchesInsideWindow ==
    Tracked =>
        \A n \in MessageIds :
            OutsideWindow(n) => ~IsIn(store[n], result.near_matches)

\* A message of another chat with the semantic hash of the target, older
\* than seven days: it is an exact match and not a near match.
C19_Witness ==
    /\ Tracked
    /\ \E n \in MessageIds :
          /\ OutsideWindow(n)
          /\ store[n].chat_id # store[result.target].chat_id
          /\ _calculate_semantic_similarity(
                 create_message_fingerprint(store[result.target]), store[n])
                 > SimilarityThreshold
          /\ IsIn(store[n], result.exact_matches)
          /\ ~IsIn(store[n], result.near_matches)

\* C21: when the database cannot be read during the similarity search,
\* track_message_propagation ends with an error at its caller and returns
\* no value, in particular no empty propagation path.
C21_UnavailableFailsFast ==
    result.op = "track_unavailable" =>
        /\ result.ret.raised
        /\ "out" \notin DOMAIN result.ret

\* The second query failed for a target that has a match in the store.
C21_Witness ==
    /\ result.op = "track_unavailable"
    /\ result.failing_at = "recent_query"
    /\ ~NoOtherMatch(result.target)
    /\ result.ret.raised

(***************************************************************************)
(* The monitoring loops.  Each loop is a coroutine; pc is its position,    *)
(* wait the length in seconds of its last asyncio.sleep, fails the number  *)
(* of consecutive cycles that raised (history, not kept by the code).      *)
(* The loops run over the store of the scenario: message A in chat 1 at    *)
(* t=0 and message B with the same text in chat 2 one hour later.          *)
(***************************************************************************)
ScenarioStore ==
    <<[id |-> 1, user_id |-> 1, chat_id |-> 1, text |-> "a", date |-> 0],
      [id |-> 2, user_id |-> 2, chat_id |-> 2, text |-> "a", date |-> 1]>>

RecentHours == 24

\* RealTimeForwardingMonitor._get_recent_messages(chat_id, hours=24)
_get_recent_messages(chat_id, now) ==
    SelectSeq(store, LAMBDA row :
        row.chat_id = chat_id /\ row.date > now - RecentHours)

InitMonitor ==
    /\ store = ScenarioStore
    /\ result = [op |-> "none"]
    /\ fields = InitFields
    /\ fplog = << >>
    /\ tasks = << >>
    /\ PlatformNotConstructed
    /\ \E chat_id \in Chats :
          mon = [forwarding    |-> [pc |-> "fetch", chat_id |-> chat_id,
                                    recent_messages |-> << >>,
                                    wait |-> 0, fails |-> 0],
                 manipulation  |-> [pc |-> "run", wait |-> 0, fails |-> 0],
                 counter_intel |-> [pc |-> "run", wait |-> 0, fails |-> 0]]

fwd == mon.forwarding

\* monitor_conversation_leaks: recent_messages = await _get_recent_messages
FwdGetRecentMessages ==
    /\ fwd.pc = "fetch"
    /\ \E now \in Clock :
          mon' = [mon EXCEPT !.forwarding.pc = "analyze",
                      !.forwarding.recent_messages =
                          _get_recent_messages(fwd.chat_id, now)]
    /\ UNCHANGED <<store, result, fields, fplog, tasks, platform>>

\* One pass of the for loop up to the test of the alert threshold.
FwdAnalyzeMessage ==
    /\ fwd.pc = "analyze"
    /\ fwd.recent_messages # << >>
    /\ \E now \in Clock, temporal \in TemporalScores,
          provider \in ProviderBehaviours :
          LET leak_analysis ==
                  analyze_message_leakage(Head(fwd.recent_messages), now,
                                          temporal, provider)
          IN  mon' = IF leak_analysis.raised
                     THEN [mon EXCEPT !.forwarding.pc = "terminated",
                               !.forwarding.fails = 1]
                     ELSE IF leak_analysis.out.leak_confidence
                                > fields.alert_threshold
                          THEN [mon EXCEPT !.forwarding.pc = "alert"]
                          ELSE [mon EXCEPT !.forwarding.recent_messages =
                                               Tail(fwd.recent_messages)]
    /\ UNCHANGED <<store, result, fields, fplog, tasks, platform>>

\* await self._trigger_leak_alert(leak_analysis)
FwdTriggerLeakAlert ==
    /\ fwd.pc = "alert"
    /\ mon' = [mon EXCEPT !.forwarding.pc = "countermeasures"]
    /\ UNCHANGED <<store, result, fields, fplog, tasks, platform>>

\* await self._implement_countermeasures(leak_analysis)
FwdImplementCountermeasures ==
    /\ fwd.pc = "countermeasures"
    /\ mon' = [mon EXCEPT !.forwarding.pc = "analyze",
                   !.forwarding.recent_messages = Tail(fwd.recent_messages)]
    /\ UNCHANGED <<store, result, fields, fplog, tasks, platform>>

\* An awaited call of the cycle raises: the loop has no try, the exception
\* leaves the coroutine.
FwdRaise ==
    /\ \/ fwd.pc \in {"fetch", "alert", "countermeasures"}
       \/ fwd.pc = "analyze" /\ fwd.recent_messages # << >>
    /\ mon' = [mon EXCEPT !.forwarding.pc = "terminated",
                   !.forwarding.fails = 1]
    /\ UNCHANGED <<store, result, fields, fplog, tasks, platform>>

\* The for loop is exhausted: await asyncio.sleep(300)
FwdSleep ==
    /\ fwd.pc = "analyze"
    /\ fwd.recent_messages = << >>
    /\ mon' = [mon EXCEPT !.forwarding.pc = "sleep",
                   !.forwarding.wait = 300, !.forwarding.fails = 0]
    /\ UNCHANGED <<store, result, fields, fplog, tasks, platform>>

FwdWake ==
    /\ fwd.pc = "sleep"
    /\ mon' = [mon EXCEPT !.forwarding.pc = "fetch"]
    /\ UNCHANGED <<store, result, fields, fplog, tasks, platform>>

\* monitor_manipulation_activity: one cycle without an exception, then
\* asyncio.sleep(30).  campaign_detected is always False, no alert is sent.
ManipulationCycle ==
    /\ mon.manipulation.pc = "run"
    /\ mon' = [mon EXCEPT !.manipulation.pc = "sleep",
                   !.manipulation.wait = 30, !.manipulation.fails = 0]
    /\ UNCHANGED <<store, result, fields, fplog, tasks, platform>>

\* _get_recent_activity raises: no try, the coroutine ends.
ManipulationRaise ==
    /\ mon.manipulation.pc = "run"
    /\ mon' = [mon EXCEPT !.manipulation.pc = "terminated",
                   !.manipulation.fails = 1]
    /\ UNCHANGED <<store, result, fields, fplog, tasks, platform>>

ManipulationWake ==
    /\ mon.manipulation.pc = "sleep"
    /\ mon' = [mon EXCEPT !.manipulation.pc = "run"]
    /\ UNCHANGED <<store, result, fields, fplog, tasks, platform>>

\* monitor_for_geolocation_threats: the try block completes,
\* asyncio.sleep(30).
CounterIntelCycle ==
    /\ mon.counter_intel.pc = "run"
    /\ mon' = [mon EXCEPT !.counter_intel.pc = "sleep",
                   !.counter_intel.wait = 30, !.counter_intel.fails = 0]
    /\ UNCHANGED <<store, result, fields, fplog, tasks, platform>>

\* The try block raises: except Exception logs it, asyncio.sleep(60).
CounterIntelRaise ==
    /\ mon.counter_intel.pc = "run"
    /\ mon.counter_intel.fails < MaxFails
    /\ mon' = [mon EXCEPT !.counter_intel.pc = "sleep",
                   !.counter_intel.wait = 60,
                   !.counter_intel.fails = @ + 1]
    /\ UNCHANGED <<store, result, fields, fplog, tasks, platform>>

CounterIntelWake ==
    /\ mon.counter_intel.pc = "sleep"
    /\ mon' = [mon EXCEPT !.counter_intel.pc = "run"]
    /\ UNCHANGED <<store, result, fields, fplog, tasks, platform>>

NextMonitor ==
    \/ FwdGetRecentMessages
    \/ FwdAnalyzeMessage
    \/ FwdTriggerLeakAlert
    \/ FwdImplementCountermeasures
    \/ FwdRaise
    \/ FwdSleep
    \/ FwdWake
    \/ ManipulationCycle
    \/ ManipulationRaise
    \/ ManipulationWake
    \/ CounterIntelCycle
    \/ CounterIntelRaise
    \/ CounterIntelWake

SpecMonitor == InitMonitor /\ [][NextMonitor]_vars

(***************************************************************************)
(* Properties of the monitoring loops, checked under SpecMonitor.          *)
(***************************************************************************)
\* C6: an exception raised inside a cycle of the leak-monitoring loop or of
\* the manipulation-monitoring loop does not terminate the loop.
C6_LoopSurvivesException ==
    \A l \in {"forwarding", "manipulation"} :
        mon[l].fails > 0 => mon[l].pc # "terminated"

StartsSleep(l) == mon[l].pc # "sleep" /\ mon'[l].pc = "sleep"

\* C7: a loop sleeps 300 s after a successful cycle; after a second or later
\* consecutive failing cycle it sleeps longer than after the failure before,
\* or the cap of 600 s; a cycle starts only out of a sleep.
C7_ExponentialBackoff ==
    [][/\ (StartsSleep("forwarding") /\ mon'.forwarding.fails = 0) =>
              mon'.forwarding.wait = 300
       /\ \A l \in {"forwarding", "counter_intel"} :
              /\ (StartsSleep(l) /\ mon'[l].fails >= 2) =>
                    (mon'[l].wait > mon[l].wait \/ mon'[l].wait = 600)
              /\ (mon'[l].pc \in {"fetch", "run"}
                    /\ mon[l].pc \notin {"fetch", "run"}) =>
                        mon[l].pc = "sleep"]_vars

(***************************************************************************)
(* The fingerprinting engine on its own: a sequence of calls of            *)
(* create_message_fingerprint on one engine.  fplog keeps every call with  *)
(* the fingerprint it returned.                                            *)
(***************************************************************************)
\* The texts of the messages handed to the engine: the stored texts and the
\* variants of "a" in letter case and in whitespace.
VariantTexts == {"", "a", "A", "a "}

\* The messages handed to the engine; the messages of the second set have
\* no text key.
InputMessages ==
    {[user_id |-> u, text |-> t] : u \in Users, t \in VariantTexts}
        \cup {[user_id |-> u] : u \in Users}

InitFingerprint ==
    /\ store = << >>
    /\ result = [op |-> "none"]
    /\ mon = MonIdle
    /\ fields = InitFields
    /\ fplog = << >>
    /\ tasks = << >>
    /\ PlatformNotConstructed

\* The call fits the vectorizer of the engine to the text it fingerprints.
CreateMessageFingerprint_fits_vectorizer ==
    /\ Len(fplog) < MaxCalls
    /\ \E message \in InputMessages :
          /\ fplog' = Append(fplog,
                 [message     |-> message,
                  fingerprint |-> create_message_fingerprint(message)])
          /\ fields' = [fields EXCEPT
                           !.vectorizer = @ \cup {Get(message, "text", "")}]
    /\ UNCHANGED <<store, result, mon, tasks, platform>>

\* One call of create_message_fingerprint: no statement of the method or of
\* the methods it calls assigns to a field of the engine.
CreateMessageFingerprint ==
    /\ Len(fplog) < MaxCalls
    /\ \E message \in InputMessages :
          fplog' = Append(fplog,
              [message     |-> message,
               fingerprint |-> create_message_fingerprint(message)])
    /\ UNCHANGED <<store, result, mon, fields, tasks, platform>>

NextFingerprint == CreateMessageFingerprint

SpecFingerprint == InitFingerprint /\ [][NextFingerprint]_vars

DifferOnlyInCaseAndWhitespace(t1, t2) ==
    \/ t1 = t2
    \/ {t1, t2} \subseteq {"a", "A", "a "}

TextOf(message) == Get(message, "text", "")

\* C13: the fingerprints of two messages whose texts differ only in letter
\* case and in whitespace have the same content_hash.
C13_ContentHashNormalized ==
    \A i, j \in 1..Len(fplog) :
        DifferOnlyInCaseAndWhitespace(TextOf(fplog[i].message),
                                      TextOf(fplog[j].message))
            => fplog[i].fingerprint.content_hash
                   = fplog[j].fingerprint.content_hash

(***************************************************************************)
(* The origin of a message.  SourceAttributionEngine._find_original_author *)
(* asks the store for the earliest earlier row with a matching hash; the   *)
(* store holds three messages of one chat, so that two of them can precede *)
(* the third with the same timestamp.                                      *)
(***************************************************************************)
OriginMsgs == 3
OriginDates == {0, 1}

OriginStores ==
    {s \in [1..OriginMsgs ->
               [id : 1..OriginMsgs, user_id : Users, chat_id : {1},
                text : Texts, date : OriginDates]] :
        \A i \in 1..OriginMsgs : s[i].id = i}

\* confidence of an origin found by hash, in percent
OriginConfidence == 95

\* What _semantic_author_search returns: no author.
_semantic_author_search ==
    [user_id |-> None, chat_id |-> None, timestamp |-> None,
     confidence |-> 0]

\* The values the method can return.  ORDER BY date ASC LIMIT 1 leaves the
\* choice among the rows of the smallest date to the database: each of them
\* can be the row fetched.  Without a row the method returns what
\* _semantic_author_search returns.
_find_original_author(message) ==
    LET rows ==
            SelectSeq(exact_matches(create_message_fingerprint(message)),
                      LAMBDA row : row.date < message.date)
        first == {i \in 1..Len(rows) :
                     \A j \in 1..Len(rows) : rows[i].date <= rows[j].date}
    IN  IF rows = << >> THEN {_semantic_author_search}
        ELSE {[user_id    |-> rows[i].user_id,
               chat_id    |-> rows[i].chat_id,
               timestamp  |-> rows[i].date,
               confidence |-> OriginConfidence] : i \in first}

InitOrigin ==
    /\ store \in OriginStores
    /\ result = [op |-> "none"]
    /\ mon = MonIdle
    /\ fields = InitFields
    /\ fplog = << >>
    /\ tasks = << >>
    /\ PlatformNotConstructed

FindOriginalAuthor ==
    /\ NoCall
    /\ \E target \in MessageIds :
          \E out \in _find_original_author(store[target]) :
              result' = [op |-> "origin", target |-> target, out |-> out]
    /\ UNCHANGED <<store, mon, fields, fplog, tasks, platform>>

NextOrigin ==
    \/ FindOriginalAuthor
    \/ TrackMessagePropagation
    \/ Return

SpecOrigin == InitOrigin /\ [][NextOrigin]_vars

(***************************************************************************)
(* Properties of the origin, checked under SpecOrigin.                     *)
(***************************************************************************)
\* No row has a smaller timestamp than date, and no row of that timestamp
\* a lower user id than user.
EarliestThenLowestUser(date, user, rows) ==
    \A i \in 1..Len(rows) :
        \/ rows[i].date > date
        \/ rows[i].date = date /\ rows[i].user_id >= user

\* The stored messages that match the target and precede it.
EarlierMatches(target) ==
    SelectSeq(store, LAMBDA row :
        Matches(row, store[target]) /\ row.date < store[target].date)

\* C16: the origin reported is the matching message with the smallest
\* timestamp and, among those of that timestamp, the lowest user id: the
\* author found by _find_original_author among the earlier matches, and the
\* first member of every chain of the propagation path among its members.
C16_OriginEarliestLowestUser ==
    /\ (/\ result.op = "origin"
        /\ result.out.confidence = OriginConfidence) =>
          EarliestThenLowestUser(result.out.timestamp, result.out.user_id,
                                 EarlierMatches(result.target))
    /\ Tracked =>
          \A k \in 1..Len(result.out.propagation_path) :
              LET chain == result.out.propagation_path[k]
              IN  EarliestThenLowestUser(chain[1].date, chain[1].user_id,
                                         chain)

(***************************************************************************)
(* The handling of a leak assessment by its three consumers: the display   *)
(* of the menu, the alert test of the monitoring loop and                  *)
(* LeakCountermeasures.  The assessment is an input, a leak_confidence in  *)
(* percent.                                                                *)
(***************************************************************************)
Confidences == 0..100

\* LeakDetectionMenu._display_leak_analysis: the colour of the result.
DisplayRed == 70
DisplayYellow == 40

_display_leak_analysis(confidence) ==
    IF confidence > DisplayRed THEN "RED"
    ELSE IF confidence > DisplayYellow THEN "YELLOW"
    ELSE "GREEN"

\* LeakCountermeasures.implement_countermeasures: the set of measures.
AggressiveMeasures == 80
MonitoringMeasures == 50

implement_countermeasures(leak_confidence) ==
    IF leak_confidence > AggressiveMeasures
    THEN {"inject_deception_data", "isolate_suspected_leaker",
          "alert_trusted_contacts", "modify_communication_patterns"}
    ELSE IF leak_confidence > MonitoringMeasures
    THEN {"increase_monitoring", "test_with_canary_messages",
          "gather_additional_evidence"}
    ELSE {}

InitHandling ==
    /\ store = << >>
    /\ \E c \in Confidences :
          result = [op |-> "assessment", leak_confidence |-> c]
    /\ mon = MonIdle
    /\ fields = InitFields
    /\ fplog = << >>
    /\ tasks = << >>
    /\ PlatformNotConstructed

DisplayLeakAnalysis ==
    /\ result.op = "assessment"
    /\ result' = [op |-> "displayed",
                  leak_confidence |-> result.leak_confidence,
                  color |-> _display_leak_analysis(result.leak_confidence)]
    /\ UNCHANGED <<store, mon, fields, fplog, tasks, platform>>

\* The test of the monitoring loop before _trigger_leak_alert.
MonitorAlertTest ==
    /\ result.op = "assessment"
    /\ result' = [op |-> "monitored",
                  leak_confidence |-> result.leak_confidence,
                  alert |-> result.leak_confidence > fields.alert_threshold]
    /\ UNCHANGED <<store, mon, fields, fplog, tasks, platform>>

ImplementCountermeasures ==
    /\ result.op = "assessment"
    /\ result' = [op |-> "countermeasures",
                  leak_confidence |-> result.leak_confidence,
                  countermeasures |->
                      implement_countermeasures(result.leak_confidence)]
    /\ UNCHANGED <<store, mon, fields, fplog, tasks, platform>>

NextHandling ==
    \/ DisplayLeakAnalysis
    \/ MonitorAlertTest
    \/ ImplementCountermeasures

SpecHandling == InitHandling /\ [][NextHandling]_vars

(***************************************************************************)
(* Properties of the handling, checked under SpecHandling.                 *)
(***************************************************************************)
\* The tier of a confidence: high above 0.7, medium above 0.4, else low.
Tier(confidence) ==
    IF confidence > 70 THEN "high"
    ELSE IF confidence > 40 THEN "medium"
    ELSE "low"

\* C18: the handling of an assessment follows the tier of its confidence:
\* the monitor alerts exactly in the high tier, the display is red, yellow
\* or green, and the countermeasures are the aggressive set, the monitoring
\* set or none, for the high, medium and low tier.
C18_HandlingFollowsTiers ==
    LET tier == Tier(result.leak_confidence)
    IN  /\ result.op = "monitored" => (result.alert <=> tier = "high")
        /\ result.op = "displayed" =>
              result.color = (IF tier = "high" THEN "RED"
                              ELSE IF tier = "medium" THEN "YELLOW"
                              ELSE "GREEN")
        /\ result.op = "countermeasures" =>
              /\ tier = "high" <=>
                    "isolate_suspected_leaker" \in result.countermeasures
              /\ tier = "medium" <=>
                    "increase_monitoring" \in result.countermeasures
              /\ tier = "low" <=> result.countermeasures = {}

(***************************************************************************)
(* Concurrent analyses.  NumTasks coroutines run analyze_message_leakage   *)
(* on one monitor and one engine over the store of the scenario; a         *)
(* coroutine can be suspended at each await, so the steps of the tasks     *)
(* interleave.  A task keeps its locals in its record; overlapped is       *)
(* history: a step of the task was taken while another task was between    *)
(* its first and its last step.                                            *)
(***************************************************************************)
TaskIds == 1..NumTasks

\* provider is what the relationship score provider does while the tasks
\* run; every task meets the same provider.
NewTask(target, provider) ==
    [pc |-> "start", target |-> target, provider |-> provider,
     overlapped |-> FALSE]

InitConcurrent ==
    /\ store = ScenarioStore
    /\ result = [op |-> "none"]
    /\ mon = MonIdle
    /\ fields = InitFields
    /\ fplog = << >>
    /\ \E targets \in [TaskIds -> MessageIds],
          provider \in ProviderBehaviours :
          tasks = [t \in TaskIds |-> NewTask(targets[t], provider)]
    /\ PlatformNotConstructed

Suspended(t) == tasks[t].pc \in {"found", "tracked"}

Overlaps(t) ==
    tasks[t].overlapped \/ \E u \in TaskIds \ {t} : Suspended(u)

\* similar_messages = await self._find_similar_messages(target_fingerprint)
TaskFindSimilarMessages ==
    \E t \in TaskIds, now \in Clock :
        /\ tasks[t].pc = "start"
        /\ tasks' = [tasks EXCEPT ![t] =
              [pc |-> "found", target |-> tasks[t].target,
               provider |-> tasks[t].provider, now |-> now,
               similar_messages |->
                   _find_similar_messages(
                       create_message_fingerprint(store[tasks[t].target]),
                       store[tasks[t].target], now),
               overlapped |-> Overlaps(t)]]
        /\ UNCHANGED <<store, result, mon, fields, fplog, platform>>

\* The task adds its similar messages to the message_graph of the engine
\* and reconstructs the path from the graph.
TaskTrackMessagePropagation_through_message_graph ==
    \E t \in TaskIds :
        LET graph == fields.message_graph \o tasks[t].similar_messages
        IN  /\ tasks[t].pc = "found"
            /\ fields' = [fields EXCEPT !.message_graph = graph]
            /\ tasks' = [tasks EXCEPT ![t] =
                  [pc |-> "tracked", target |-> tasks[t].target,
                   provider |-> tasks[t].provider, now |-> tasks[t].now,
                   propagation_analysis |-> propagation_analysis_of(graph),
                   overlapped |-> Overlaps(t)]]
            /\ UNCHANGED <<store, result, mon, fplog, platform>>

\* The rest of track_message_propagation: the dict is built from the local
\* similar_messages and returned to analyze_message_leakage.
TaskTrackMessagePropagation ==
    \E t \in TaskIds :
        /\ tasks[t].pc = "found"
        /\ tasks' = [tasks EXCEPT ![t] =
              [pc |-> "tracked", target |-> tasks[t].target,
               provider |-> tasks[t].provider, now |-> tasks[t].now,
               propagation_analysis |->
                   propagation_analysis_of(tasks[t].similar_messages),
               overlapped |-> Overlaps(t)]]
        /\ UNCHANGED <<store, result, mon, fields, fplog, platform>>

\* The rest of analyze_message_leakage: the indicators are awaited and the
\* assessment is returned.
TaskAssess ==
    \E t \in TaskIds, temporal \in TemporalScores :
        /\ tasks[t].pc = "tracked"
        /\ tasks' = [tasks EXCEPT ![t] =
              [pc |-> "done", target |-> tasks[t].target,
               provider |-> tasks[t].provider, now |-> tasks[t].now,
               temporal |-> temporal,
               ret |-> leak_assessment_of(store[tasks[t].target],
                                          tasks[t].propagation_analysis,
                                          temporal, tasks[t].provider),
               overlapped |-> Overlaps(t)]]
        /\ UNCHANGED <<store, result, mon, fields, fplog, platform>>

NextConcurrent ==
    \/ TaskFindSimilarMessages
    \/ TaskTrackMessagePropagation
    \/ TaskAssess

SpecConcurrent == InitConcurrent /\ [][NextConcurrent]_vars

NetDates == {0, 1}

\* The lists of similar messages the network is built from.
NetInputs ==
    UNION {{msgs \in [1..n -> [id : 1..n, user_id : Users,
                                chat_id : Chats, date : NetDates]] :
               \A i \in 1..n : msgs[i].id = i} : n \in 1..NetMsgs}

\* dict.update: the keys of new replace those of d.
Update(d, new) ==
    [k \in DOMAIN d \cup DOMAIN new |->
        IF k \in DOMAIN new THEN new[k] ELSE d[k]]

EmptyGraph == [nodes |-> << >>, edges |-> << >>]

\* G.add_node(n, **attrs): a new node, or the attributes of the node updated.
add_node(G, n, attrs) ==
    LET old == IF n \in DOMAIN G.nodes THEN G.nodes[n] ELSE << >>
    IN  [nodes |-> [m \in DOMAIN G.nodes \cup {n} |->
                       IF m = n THEN Update(old, attrs) ELSE G.nodes[m]],
         edges |-> G.edges]

\* G.add_edge(u, v, **attrs): a DiGraph holds one edge per pair (u, v); a
\* second add_edge of the pair updates the attributes of that edge.
add_edge(G, u, v, attrs) ==
    LET e   == <<u, v>>
        old == IF e \in DOMAIN G.edges THEN G.edges[e] ELSE << >>
    IN  [nodes |-> G.nodes,
         edges |-> [f \in DOMAIN G.edges \cup {e} |->
                       IF f = e THEN Update(old, attrs) ELSE G.edges[f]]]

\* The for loop over similar_messages from position i on.
RECURSIVE NetworkLoop(_, _, _)
NetworkLoop(similar_messages, i, G) ==
    IF i > Len(similar_messages) THEN G
    ELSE LET message   == similar_messages[i]
             user_id   == message.user_id
             chat_id   == message.chat_id
             timestamp == message.date
             G1 == add_node(G, user_id,
                            [type |-> "user", first_seen |-> timestamp])
             G2 == add_node(G1, chat_id, [type |-> "chat"])
             G3 == add_edge(G2, user_id, chat_id,
                            [message_id |-> message.id,
                             timestamp  |-> timestamp])
         IN  NetworkLoop(similar_messages, i + 1, G3)

\* Of the returned dict only the graph (graph_data) is modelled.
_build_forwarding_network(similar_messages) ==
    NetworkLoop(similar_messages, 1, EmptyGraph)

InitNetwork ==
    /\ store = << >>
    /\ \E similar_messages \in NetInputs :
          result = [op |-> "network_input",
                    similar_messages |-> similar_messages]
    /\ mon = MonIdle
    /\ fields = InitFields
    /\ fplog = << >>
    /\ tasks = << >>
    /\ PlatformNotConstructed

BuildForwardingNetwork ==
    /\ result.op = "network_input"
    /\ result' = [op |-> "network",
                  similar_messages |-> result.similar_messages,
                  G |-> _build_forwarding_network(result.similar_messages)]
    /\ UNCHANGED <<store, mon, fields, fplog, tasks, platform>>

NextNetwork == BuildForwardingNetwork

SpecNetwork == InitNetwork /\ [][NextNetwork]_vars

(***************************************************************************)
(* Properties of the forwarding network, checked under SpecNetwork.        *)
(***************************************************************************)
\* C22: for every message of the input the graph has the sender as a user
\* node, the chat as a chat node, and an edge from the sender to the chat
\* that carries the id and the timestamp of that message.
C22_OneEdgePerMessage ==
    result.op = "network" =>
        \A i \in 1..Len(result.similar_messages) :
            LET message == result.similar_messages[i]
                G       == result.G
                e       == <<message.user_id, message.chat_id>>
            IN  /\ message.user_id \in DOMAIN G.nodes
                /\ G.nodes[message.user_id].type = "user"
                /\ message.chat_id \in DOMAIN G.nodes
                /\ G.nodes[message.chat_id].type = "chat"
                /\ e \in DOMAIN G.edges
                /\ G.edges[e].message_id = message.id
                /\ G.edges[e].timestamp = message.date

(***************************************************************************)
(* The backward walk of _reconstruct_forwarding_chain step by step, with   *)
(* the time it takes.  Every await of _find_previous_version returns after *)
(* one of WalkSeconds seconds; elapsed is the time since the call of the   *)
(* method, late_iterations the number of iterations begun more than 30     *)
(* seconds after it (both history, the method keeps no clock).  The store  *)
(* holds two messages of the same text and timestamp, so that each can be  *)
(* the previous version of the other.                                      *)
(***************************************************************************)
WalkSeconds == {1, 20}

WalkStore ==
    <<[id |-> 1, user_id |-> 1, chat_id |-> 1, text |-> "a", date |-> 0],
      [id |-> 2, user_id |-> 2, chat_id |-> 2, text |-> "a", date |-> 0]>>

InitWalk ==
    /\ store = WalkStore
    /\ \E target \in 1..Len(WalkStore) :
          \E prev \in {p \in [1..Len(WalkStore) ->
                                 (1..Len(WalkStore)) \cup {None}] :
                           \A m \in 1..Len(WalkStore) : p[m] # m} :
              result = [op |-> "walking", target |-> target, prev |-> prev,
                        current_message |-> WalkStore[target],
                        chain |-> << >>, iteration |-> 0, broke |-> FALSE,
                        elapsed |-> 0, late_iterations |-> 0]
    /\ mon = MonIdle
    /\ fields = InitFields
    /\ fplog = << >>
    /\ tasks = << >>
    /\ PlatformNotConstructed

\* One iteration of the while loop: the await, then the append.
WalkIterate ==
    /\ result.op = "walking"
    /\ ~result.broke
    /\ ChainLoopTest(result.iteration)
    /\ \E seconds \in WalkSeconds :
          LET previous_version == result.prev[result.current_message.id]
              late == IF result.elapsed > 30 THEN 1 ELSE 0
          IN  result' =
                IF previous_version # None
                THEN [result EXCEPT
                        !.chain = Append(@,
                            [message   |-> store[previous_version],
                             forwarder |-> result.current_message.user_id,
                             timestamp |-> result.current_message.date]),
                        !.current_message = store[previous_version],
                        !.iteration = @ + 1,
                        !.elapsed = @ + seconds,
                        !.late_iterations = @ + late]
                ELSE [result EXCEPT
                        !.chain = Append(@,
                            [message   |-> result.current_message,
                             status    |-> "original",
                             timestamp |-> result.current_message.date]),
                        !.broke = TRUE,
                        !.elapsed = @ + seconds,
                        !.late_iterations = @ + late]
    /\ UNCHANGED <<store, mon, fields, fplog, tasks, platform>>

\* The loop is left: return list(reversed(chain)).
WalkReturn ==
    /\ result.op = "walking"
    /\ result.broke \/ ~ChainLoopTest(result.iteration)
    /\ result' = [op |-> "walked", target |-> result.target,
                  out |-> Reversed(result.chain),
                  elapsed |-> result.elapsed,
                  late_iterations |-> result.late_iterations]
    /\ UNCHANGED <<store, mon, fields, fplog, tasks, platform>>

NextWalk ==
    \/ WalkIterate
    \/ WalkReturn

SpecWalk == InitWalk /\ [][NextWalk]_vars

(***************************************************************************)
(* Properties of the timed walk, checked under SpecWalk.                   *)
(***************************************************************************)
\* The returned value, or one of the entries of the returned chain, carries
\* truncated = true.
CarriesTruncated(out) ==
    \/ Get(out, "truncated", FALSE)
    \/ \E i \in 1..Len(out) : Get(out[i], "truncated", FALSE)

\* C23: a reconstruction that has run for more than 30 seconds begins no
\* further iteration, and what it returns carries truncated = true.
C23_DeadlineTruncates ==
    /\ result.late_iterations = 0
    /\ (result.op = "walked" /\ result.elapsed > 30) =>
          CarriesTruncated(result.out)

(***************************************************************************)
(* AdaptiveRateLimiter.check_rate_limit.  NumCalls calls of one client for *)
(* one endpoint run as coroutines on one limiter, inside one period of     *)
(* every window; a coroutine can be suspended at each await.  counts is    *)
(* the request counter of every window, limits the adaptive limits (the    *)
(* same for every call: one tier, one threat level), calls the position    *)
(* and the locals of every call.                                           *)
(***************************************************************************)
\* The keys of rate_windows in the order of the dict.
rate_windows == <<"second", "minute", "hour", "day">>

WindowNames == {rate_windows[i] : i \in 1..Len(rate_windows)}

\* Values of an adaptive limit.
LimitValues == {1, 2}

CallIds == 1..NumCalls

\* Every variable of the platform except limiter.
notLimiter == <<workers, sessions, operations, alerts, keys, install>>

InitRateLimit ==
    /\ MessagingNotConstructed
    /\ \E adaptive_limits \in [WindowNames -> LimitValues] :
          limiter = [counts |-> [w \in WindowNames |-> 0],
                     limits |-> adaptive_limits,
                     calls  |-> [c \in CallIds |-> [pc |-> "check",
                                                    window |-> 1]]]
    /\ workers = NotConstructed
    /\ sessions = NotConstructed
    /\ operations = NotConstructed
    /\ alerts = NotConstructed
    /\ keys = NotConstructed
    /\ install = NotConstructed

\* One pass of the for loop: current_count = await _get_request_count(...),
\* then the test against the limit of the window.
CheckWindow ==
    \E c \in CallIds :
        LET call          == limiter.calls[c]
            window_name   == rate_windows[call.window]
            current_count == limiter.counts[window_name]
            window_limit  == limiter.limits[window_name]
        IN  /\ call.pc = "check"
            /\ limiter' = [limiter EXCEPT !.calls[c] =
                  IF current_count >= window_limit
                  THEN [pc |-> "returned", allowed |-> FALSE,
                        window |-> call.window]
                  ELSE IF call.window < Len(rate_windows)
                  THEN [pc |-> "check", window |-> call.window + 1]
                  ELSE [pc |-> "increment", window |-> call.window]]
            /\ UNCHANGED <<messaging, notLimiter>>

\* await self._increment_request_counters(client_id, endpoint), then the
\* return of allowed = True.
IncrementRequestCounters ==
    \E c \in CallIds :
        /\ limiter.calls[c].pc = "increment"
        /\ limiter' = [limiter EXCEPT
              !.counts = [w \in WindowNames |-> @[w] + 1],
              !.calls[c] = [pc |-> "returned", allowed |-> TRUE,
                            window |-> @.window]]
        /\ UNCHANGED <<messaging, notLimiter>>

NextRateLimit ==
    \/ CheckWindow
    \/ IncrementRequestCounters

SpecRateLimit == InitRateLimit /\ [][NextRateLimit]_vars

(***************************************************************************)
(* Properties of the rate limiter, checked under SpecRateLimit.            *)
(***************************************************************************)
AllowedCalls ==
    {c \in CallIds : /\ limiter.calls[c].pc = "returned"
                     /\ limiter.calls[c].allowed}

\* C24: in every window the number of calls answered allowed = true does
\* not exceed the adaptive limit of the window, however the calls
\* interleave; the counters count the allowed calls only.
C24_AllowedWithinLimit ==
    \A w \in WindowNames :
        /\ Cardinality(AllowedCalls) <= limiter.limits[w]
        /\ limiter.counts[w] = Cardinality(AllowedCalls)

(***************************************************************************)
(* EnterpriseWorkerManager: submit_task and the distributor coroutine      *)
(* _distribute_tasks.  queue is task_queue (task ids in FIFO order), pool  *)
(* the ids of worker_pool, assigned maps a task to the worker whose        *)
(* assign_task accepted it, submitted counts the tasks submitted, dist is  *)
(* the position of the distributor and the task it holds.                  *)
(***************************************************************************)
\* Machines the manager is initialized on: CPU cores and available RAM (GB).
CpuCounts == {1, 4}
AvailableRam == {1, 4}

MaxWorkers == 16

Min(S) == CHOOSE x \in S : \A y \in S : x <= y
Max(S) == CHOOSE x \in S : \A y \in S : x >= y

_calculate_optimal_workers(cpu_count, available_ram) ==
    LET cpu_workers == Max({1, cpu_count - 2})
        ram_workers == available_ram \div 2
    IN  Min({cpu_workers, ram_workers, MaxWorkers})

\* Every variable of the platform except workers.
notWorkers == <<limiter, sessions, operations, alerts, keys, install>>

\* The state after initialize_workers.
InitWorkers ==
    /\ MessagingNotConstructed
    /\ \E cpu_count \in CpuCounts, available_ram \in AvailableRam :
          workers =
              [queue |-> << >>,
               pool |-> 1.._calculate_optimal_workers(cpu_count,
                                                      available_ram),
               assigned |-> << >>,
               submitted |-> 0,
               dist |-> [pc |-> "get", task |-> None]]
    /\ limiter = NotConstructed
    /\ sessions = NotConstructed
    /\ operations = NotConstructed
    /\ alerts = NotConstructed
    /\ keys = NotConstructed
    /\ install = NotConstructed

\* submit_task: the task gets the next id and is put on the queue.
SubmitTask ==
    /\ workers.submitted < MaxTasks
    /\ workers' = [workers EXCEPT
          !.submitted = @ + 1,
          !.queue = Append(@, workers.submitted + 1)]
    /\ UNCHANGED <<messaging, notWorkers>>

\* task = await self.task_queue.get()
DistributorGet ==
    /\ workers.dist.pc = "get"
    /\ workers.queue # << >>
    /\ workers' = [workers EXCEPT
          !.queue = Tail(@),
          !.dist = [pc |-> "select", task |-> Head(workers.queue)]]
    /\ UNCHANGED <<messaging, notWorkers>>

\* _select_optimal_worker returns a worker of the pool and its assign_task
\* accepts the task; then task_done().
DistributorAssign ==
    /\ workers.dist.pc = "select"
    /\ \E optimal_worker \in workers.pool :
          workers' = [workers EXCEPT
              !.assigned = [t \in DOMAIN @ \cup {workers.dist.task} |->
                               IF t = workers.dist.task
                               THEN optimal_worker ELSE @[t]],
              !.dist = [pc |-> "get", task |-> None]]
    /\ UNCHANGED <<messaging, notWorkers>>

\* _select_optimal_worker or assign_task raises: except Exception logs the
\* error and sleeps one second; the loop goes on with the next get.
DistributorAssignRaises ==
    /\ workers.dist.pc = "select"
    /\ workers' = [workers EXCEPT !.dist = [pc |-> "get", task |-> None]]
    /\ UNCHANGED <<messaging, notWorkers>>

\* _select_optimal_worker returns None (no worker, or every worker busy):
\* await asyncio.sleep(0.1)
DistributorBackpressure ==
    /\ workers.dist.pc = "select"
    /\ workers' = [workers EXCEPT !.dist.pc = "requeue"]
    /\ UNCHANGED <<messaging, notWorkers>>

\* await self.task_queue.put(task), then task_done().
DistributorRequeue ==
    /\ workers.dist.pc = "requeue"
    /\ workers' = [workers EXCEPT
          !.queue = Append(@, workers.dist.task),
          !.dist = [pc |-> "get", task |-> None]]
    /\ UNCHANGED <<messaging, notWorkers>>

NextWorkers ==
    \/ SubmitTask
    \/ DistributorGet
    \/ DistributorAssign
    \/ DistributorAssignRaises
    \/ DistributorBackpressure
    \/ DistributorRequeue

SpecWorkers == InitWorkers /\ [][NextWorkers]_vars

(***************************************************************************)
(* Properties of the worker manager, checked under SpecWorkers.            *)
(***************************************************************************)
\* C25: every submitted task is in the task queue, or assigned to a worker,
\* or in the hands of the distributor between its get and its assign or
\* requeue.
C25_NoTaskLost ==
    \A t \in 1..workers.submitted :
        \/ IsIn(t, workers.queue)
        \/ t \in DOMAIN workers.assigned
        \/ workers.dist.task = t

(***************************************************************************)
(* SecureSessionManager: create_secure_session and validate_session.       *)
(* store is the encrypted session store (token -> session), terminated the *)
(* tokens _terminate_session was called for, alerted the tokens the        *)
(* security team was alerted about, now the wall clock in hours, last the  *)
(* latest validate_session call.                                           *)
(***************************************************************************)
SessionHours == 8
ClockStep == 4
MaxTime == 12
SessionTokens == 1..MaxSessions

\* Every variable of the platform except sessions.
notSessions == <<limiter, workers, operations, alerts, keys, install>>

InitSessions ==
    /\ MessagingNotConstructed
    /\ sessions = [store |-> << >>,
                   terminated |-> {},
                   alerted |-> {},
                   now |-> 0,
                   last |-> [op |-> "none"]]
    /\ limiter = NotConstructed
    /\ workers = NotConstructed
    /\ operations = NotConstructed
    /\ alerts = NotConstructed
    /\ keys = NotConstructed
    /\ install = NotConstructed

\* Time passes between the calls.
SessionClock ==
    /\ sessions.now + ClockStep <= MaxTime
    /\ sessions' = [sessions EXCEPT !.now = @ + ClockStep]
    /\ UNCHANGED <<messaging, notSessions>>

\* create_secure_session: the session expires eight hours after creation.
CreateSecureSession ==
    /\ \E session_id \in SessionTokens :
          /\ session_id \notin DOMAIN sessions.store
          /\ session_id \notin sessions.terminated
          /\ \A other \in SessionTokens :
                 other < session_id =>
                     other \in DOMAIN sessions.store \cup sessions.terminated
          /\ sessions' = [sessions EXCEPT
                !.store = [t \in DOMAIN @ \cup {session_id} |->
                    IF t = session_id
                    THEN [expires_at |-> sessions.now + SessionHours,
                          last_activity |-> sessions.now]
                    ELSE @[t]]]
    /\ UNCHANGED <<messaging, notSessions>>

\* _terminate_session(session_token)
_terminate_session(state, session_token) ==
    [state EXCEPT
        !.store = [t \in DOMAIN @ \ {session_token} |-> @[t]],
        !.terminated = @ \cup {session_token}]

\* The return value of a validate_session call.
ReturnsNone == [returned |-> FALSE]
ReturnsSession(session) == [returned |-> TRUE, session |-> session]

\* validate_session with the last-activity update moved before the
\* reauthentication check.
ValidateSession_touch_first ==
    /\ \E session_token \in SessionTokens,
           threat_detected \in BOOLEAN,
           requires_reauthentication \in BOOLEAN :
          LET found == session_token \in DOMAIN sessions.store
              call == [op |-> "validate",
                       session_token |-> session_token,
                       now |-> sessions.now,
                       found |-> found,
                       threat_detected |-> threat_detected,
                       requires_reauthentication |->
                           requires_reauthentication]
          IN
          IF ~found
          THEN sessions' = [sessions EXCEPT
                   !.last = call @@ [out |-> ReturnsNone]]
          ELSE
          LET session == sessions.store[session_token]
              seen == call @@ [session |-> session]
              touched == [session EXCEPT !.last_activity = sessions.now]
          IN
          IF sessions.now > session.expires_at
          THEN sessions' = [_terminate_session(sessions, session_token)
                   EXCEPT !.last = seen @@ [out |-> ReturnsNone]]
          ELSE IF threat_detected
          THEN sessions' = [_terminate_session(sessions, session_token)
                   EXCEPT !.alerted = @ \cup {session_token},
                          !.last = seen @@ [out |-> ReturnsNone]]
          ELSE IF requires_reauthentication
          THEN sessions' = [sessions EXCEPT
                   !.store[session_token] = touched,
                   !.last = seen @@ [out |-> ReturnsNone]]
          ELSE sessions' = [sessions EXCEPT
                   !.store[session_token] = touched,
                   !.last = seen @@ [out |-> ReturnsSession(touched)]]
    /\ UNCHANGED <<messaging, notSessions>>

\* validate_session(session_token): the threat detector and
\* _requires_reauthentication answer either way.
ValidateSession ==
    /\ \E session_token \in SessionTokens,
           threat_detected \in BOOLEAN,
           requires_reauthentication \in BOOLEAN :
          LET found == session_token \in DOMAIN sessions.store
              call == [op |-> "validate",
                       session_token |-> session_token,
                       now |-> sessions.now,
                       found |-> found,
                       threat_detected |-> threat_detected,
                       requires_reauthentication |->
                           requires_reauthentication]
          IN
          IF ~found
          THEN sessions' = [sessions EXCEPT
                   !.last = call @@ [out |-> ReturnsNone]]
          ELSE
          LET session == sessions.store[session_token]
              seen == call @@ [session |-> session]
              touched == [session EXCEPT !.last_activity = sessions.now]
          IN
          IF sessions.now > session.expires_at
          THEN sessions' = [_terminate_session(sessions, session_token)
                   EXCEPT !.last = seen @@ [out |-> ReturnsNone]]
          ELSE IF threat_detected
          THEN sessions' = [_terminate_session(sessions, session_token)
                   EXCEPT !.alerted = @ \cup {session_token},
                          !.last = seen @@ [out |-> ReturnsNone]]
          ELSE IF requires_reauthentication
          THEN sessions' = [sessions EXCEPT
                   !.last = seen @@ [out |-> ReturnsNone]]
          ELSE sessions' = [sessions EXCEPT
                   !.store[session_token] = touched,
                   !.last = seen @@ [out |-> ReturnsSession(touched)]]
    /\ UNCHANGED <<messaging, notSessions>>

NextSessions ==
    \/ SessionClock
    \/ CreateSecureSession
    \/ ValidateSession

SpecSessions == InitSessions /\ [][NextSessions]_vars

(***************************************************************************)
(* Properties of the session manager, checked under SpecSessions.          *)
(***************************************************************************)
\* The latest validate_session call found a session that had expired or
\* for which the threat detector reported a threat.
ExpiredOrThreat ==
    /\ sessions.last.op = "validate"
    /\ sessions.last.found
    /\ \/ sessions.last.now > sessions.last.session.expires_at
       \/ sessions.last.threat_detected

\* C26: a validate_session call on a session that has expired or for which
\* a threat was detected terminates the session and returns None; a call
\* that returns the session has set its last_activity to the time of the
\* call, and a call that returns None leaves the last_activity of a session
\* still stored as it was.
C26_ValidateSession ==
    sessions.last.op = "validate" /\ sessions.last.found =>
        LET call == sessions.last
            token == call.session_token
        IN  /\ ExpiredOrThreat =>
                  /\ ~call.out.returned
                  /\ token \in sessions.terminated
                  /\ token \notin DOMAIN sessions.store
            /\ call.out.returned =>
                  /\ call.out.session.last_activity = call.now
                  /\ sessions.store[token] = call.out.session
            /\ (~call.out.returned /\ token \in DOMAIN sessions.store) =>
                  sessions.store[token] = call.session

\* An expired session was refused and terminated, at a time later than its
\* last activity.
C26_Witness ==
    /\ sessions.last.op = "validate"
    /\ sessions.last.found
    /\ sessions.last.now > sessions.last.session.expires_at
    /\ ~sessions.last.out.returned
    /\ sessions.last.session_token \in sessions.terminated

(***************************************************************************)
(* RealTimeCounterIntelMonitor: _activate_counter_intel_protocol, called   *)
(* by the one monitoring loop, and the _monitor_trap_activation tasks it   *)
(* creates.  active is active_operations (user -> trap id), traps is       *)
(* trap_engine.active_traps (trap id -> target user), monitors the         *)
(* monitoring tasks by trap id, activating the user of the activation in   *)
(* flight, last the latest activation call.                                *)
(***************************************************************************)
max_monitoring_time == 24
\* Hours one run of unsuccessful checks of a monitoring task lasts.
MonitoringStep == 12

\* Every variable of the platform except operations.
notOperations == <<limiter, workers, sessions, alerts, keys, install>>

InitCounterIntel ==
    /\ MessagingNotConstructed
    /\ operations = [active |-> << >>,
                     traps |-> << >>,
                     monitors |-> << >>,
                     activating |-> None,
                     last |-> [op |-> "none"]]
    /\ limiter = NotConstructed
    /\ workers = NotConstructed
    /\ sessions = NotConstructed
    /\ alerts = NotConstructed
    /\ keys = NotConstructed
    /\ install = NotConstructed

\* d with the entry of k set to v.
Put(d, k, v) == [x \in DOMAIN d \cup {k} |-> IF x = k THEN v ELSE d[x]]
\* del d[k]
Del(d, k) == [x \in DOMAIN d \ {k} |-> d[x]]

\* _activate_counter_intel_protocol without the test of active_operations.
ActivateCounterIntelProtocol_unguarded ==
    /\ operations.activating = None
    /\ Cardinality(DOMAIN operations.traps) < MaxTraps
    /\ \E spy_user_id \in Users :
          operations' = [operations EXCEPT
              !.activating = spy_user_id,
              !.last = [op |-> "activate",
                        spy_user_id |-> spy_user_id,
                        already_active |->
                            spy_user_id \in DOMAIN operations.active,
                        traps |-> operations.traps]]
    /\ UNCHANGED <<messaging, notOperations>>

\* _activate_counter_intel_protocol up to the await of
\* setup_geolocation_trap: returns at once for a user in active_operations.
ActivateCounterIntelProtocol ==
    /\ operations.activating = None
    /\ \E spy_user_id \in Users :
          /\ \/ spy_user_id \in DOMAIN operations.active
             \/ Cardinality(DOMAIN operations.traps) < MaxTraps
          /\ operations' = [operations EXCEPT
              !.activating = IF spy_user_id \in DOMAIN operations.active
                             THEN None ELSE spy_user_id,
              !.last = [op |-> "activate",
                        spy_user_id |-> spy_user_id,
                        already_active |->
                            spy_user_id \in DOMAIN operations.active,
                        traps |-> operations.traps]]
    /\ UNCHANGED <<messaging, notOperations>>

\* setup_geolocation_trap returns the trap configuration; the operation is
\* entered in active_operations and its monitoring task created.
SetupGeolocationTrap ==
    /\ operations.activating # None
    /\ LET spy_user_id == operations.activating
           trap_id == Cardinality(DOMAIN operations.traps) + 1
       IN  operations' = [operations EXCEPT
               !.traps = Put(@, trap_id, spy_user_id),
               !.active = Put(@, spy_user_id, trap_id),
               !.monitors = Put(@, trap_id,
                   [spy_user_id |-> spy_user_id,
                    pc |-> "monitoring",
                    elapsed |-> 0,
                    removals |-> 0]),
               !.activating = None]
    /\ UNCHANGED <<messaging, notOperations>>

\* setup_geolocation_trap stores the trap and _plant_deception_data raises:
\* the exception leaves _activate_counter_intel_protocol.
SetupGeolocationTrapRaises ==
    /\ operations.activating # None
    /\ LET spy_user_id == operations.activating
           trap_id == Cardinality(DOMAIN operations.traps) + 1
       IN  operations' = [operations EXCEPT
               !.traps = Put(@, trap_id, spy_user_id),
               !.activating = None]
    /\ UNCHANGED <<messaging, notOperations>>

\* The monitoring task ends and deletes the entry of its user.
EndOperation(trap_id) ==
    LET task == operations.monitors[trap_id]
    IN  [operations EXCEPT
            !.active = Del(@, task.spy_user_id),
            !.monitors[trap_id] =
                [task EXCEPT
                    !.pc = "done",
                    !.removals =
                        IF task.spy_user_id \in DOMAIN operations.active
                        THEN @ + 1 ELSE @]]

\* A check inside the 24 hours detects the activation of the trap.
MonitorTrapActivated ==
    /\ \E trap_id \in DOMAIN operations.monitors :
          /\ operations.monitors[trap_id].pc = "monitoring"
          /\ operations.monitors[trap_id].elapsed < max_monitoring_time
          /\ operations' = EndOperation(trap_id)
    /\ UNCHANGED <<messaging, notOperations>>

\* The checks inside the 24 hours detect nothing, or raise: the task sleeps
\* and goes on.
MonitorTrapSleep ==
    /\ \E trap_id \in DOMAIN operations.monitors :
          /\ operations.monitors[trap_id].pc = "monitoring"
          /\ operations.monitors[trap_id].elapsed < max_monitoring_time
          /\ operations' = [operations EXCEPT
                !.monitors[trap_id].elapsed = @ + MonitoringStep]
    /\ UNCHANGED <<messaging, notOperations>>

\* The 24 hours are over: the trap expired.
MonitorTrapExpired ==
    /\ \E trap_id \in DOMAIN operations.monitors :
          /\ operations.monitors[trap_id].pc = "monitoring"
          /\ operations.monitors[trap_id].elapsed >= max_monitoring_time
          /\ operations' = EndOperation(trap_id)
    /\ UNCHANGED <<messaging, notOperations>>

NextCounterIntel ==
    \/ ActivateCounterIntelProtocol
    \/ SetupGeolocationTrap
    \/ SetupGeolocationTrapRaises
    \/ MonitorTrapActivated
    \/ MonitorTrapSleep
    \/ MonitorTrapExpired

SpecCounterIntel == InitCounterIntel /\ [][NextCounterIntel]_vars

(***************************************************************************)
(* Properties of the counter-intelligence monitor, checked under           *)
(* SpecCounterIntel.                                                       *)
(***************************************************************************)
\* The monitoring tasks still running for a user.
RunningMonitors(user) ==
    {t \in DOMAIN operations.monitors :
        /\ operations.monitors[t].spy_user_id = user
        /\ operations.monitors[t].pc = "monitoring"}

\* C27: a user has at most one running monitoring task, and has one exactly
\* when the user is in active_operations, whose entry is the trap of that
\* task; an activation for a user already in active_operations sets up no
\* trap; a finished monitoring task has removed the entry of its user
\* exactly once and a running one has not removed it.
C27_OneOperationPerUser ==
    /\ \A user \in Users :
          /\ Cardinality(RunningMonitors(user)) <= 1
          /\ user \in DOMAIN operations.active <=>
                 RunningMonitors(user) # {}
          /\ user \in DOMAIN operations.active =>
                 RunningMonitors(user) = {operations.active[user]}
    /\ (operations.last.op = "activate" /\ operations.last.already_active) =>
          /\ operations.traps = operations.last.traps
          /\ operations.activating = None
    /\ \A t \in DOMAIN operations.monitors :
          operations.monitors[t].removals =
              IF operations.monitors[t].pc = "done" THEN 1 ELSE 0

\* An activation for a user with a running operation was ignored while an
\* earlier operation has already ended.
C27_Witness ==
    /\ operations.last.op = "activate"
    /\ operations.last.already_active
    /\ operations.last.spy_user_id \in DOMAIN operations.active
    /\ \E t \in DOMAIN operations.monitors :
          operations.monitors[t].pc = "done"

(***************************************************************************)
(* AlertManager: trigger_alert and the escalation timer task it creates.   *)
(* store is the alert store (alert id -> alert), timers the escalation     *)
(* timer tasks by alert id, now the clock in minutes.  Alerts are          *)
(* acknowledged and resolved in the store by the operators.                *)
(***************************************************************************)
Severities == {"low", "medium", "high", "critical", "info"}

\* escalation_delays.get(severity, timedelta(hours=1)), in minutes.
escalation_delay(severity) ==
    CASE severity = "low" -> 240
      [] severity = "medium" -> 120
      [] severity = "high" -> 30
      [] severity = "critical" -> 5
      [] OTHER -> 60

\* The moments of the clock, in minutes.
AlertTimes == {0, 5, 30, 60, 120, 240, 480}

\* Every variable of the platform except alerts.
notAlerts == <<limiter, workers, sessions, operations, keys, install>>

InitAlerts ==
    /\ MessagingNotConstructed
    /\ alerts = [store |-> << >>, timers |-> << >>, now |-> 0]
    /\ limiter = NotConstructed
    /\ workers = NotConstructed
    /\ sessions = NotConstructed
    /\ operations = NotConstructed
    /\ keys = NotConstructed
    /\ install = NotConstructed

AlertClock ==
    /\ \E later \in AlertTimes :
          /\ later > alerts.now
          /\ alerts' = [alerts EXCEPT !.now = later]
    /\ UNCHANGED <<messaging, notAlerts>>

\* trigger_alert: the alert is stored active and unacknowledged and its
\* escalation timer task is created.
TriggerAlert ==
    /\ Cardinality(DOMAIN alerts.store) < MaxAlerts
    /\ \E severity \in Severities :
          LET alert_id == Cardinality(DOMAIN alerts.store) + 1
          IN  alerts' = [alerts EXCEPT
                  !.store = Put(@, alert_id,
                      [severity |-> severity,
                       timestamp |-> alerts.now,
                       status |-> "active",
                       acknowledged |-> FALSE,
                       escalation_level |-> 0]),
                  !.timers = Put(@, alert_id,
                      [pc |-> "sleeping",
                       due |-> alerts.now + escalation_delay(severity),
                       escalations |-> 0])]
    /\ UNCHANGED <<messaging, notAlerts>>

\* An operator acknowledges a stored alert.
AcknowledgeAlert ==
    /\ \E alert_id \in DOMAIN alerts.store :
          /\ ~alerts.store[alert_id].acknowledged
          /\ alerts' = [alerts EXCEPT
                !.store[alert_id].acknowledged = TRUE]
    /\ UNCHANGED <<messaging, notAlerts>>

\* The condition of a stored alert clears: it is no longer active.
ResolveAlert ==
    /\ \E alert_id \in DOMAIN alerts.store :
          /\ alerts.store[alert_id].status = "active"
          /\ alerts' = [alerts EXCEPT
                !.store[alert_id].status = "resolved"]
    /\ UNCHANGED <<messaging, notAlerts>>

\* _start_escalation_timer after its sleep: reads the alert and escalates
\* it when it is there and not acknowledged.
EscalationTimer ==
    /\ \E alert_id \in DOMAIN alerts.timers :
          /\ alerts.timers[alert_id].pc = "sleeping"
          /\ alerts.now >= alerts.timers[alert_id].due
          /\ LET current_alert == alerts.store[alert_id]
                 escalate == ~current_alert.acknowledged
             IN  alerts' = [alerts EXCEPT
                     !.store[alert_id].escalation_level =
                         IF escalate THEN @ + 1 ELSE @,
                     !.timers[alert_id] =
                         [pc |-> "done",
                          due |-> @.due,
                          escalations |->
                              IF escalate THEN @.escalations + 1
                              ELSE @.escalations,
                          woke |-> alerts.now,
                          current_alert |-> current_alert]]
    /\ UNCHANGED <<messaging, notAlerts>>

NextAlerts ==
    \/ AlertClock
    \/ TriggerAlert
    \/ AcknowledgeAlert
    \/ ResolveAlert
    \/ EscalationTimer

SpecAlerts == InitAlerts /\ [][NextAlerts]_vars

(***************************************************************************)
(* Properties of the alert manager, checked under SpecAlerts.              *)
(***************************************************************************)
\* C28: a timer has escalated its alert at most once, and only after the
\* delay of the alert's severity, when the alert it read was still active
\* and unacknowledged.
C28_EscalatedOnlyActiveUnacknowledged ==
    \A alert_id \in DOMAIN alerts.timers :
        LET timer == alerts.timers[alert_id]
        IN  /\ timer.escalations <= 1
            /\ timer.escalations = 1 =>
                  /\ timer.pc = "done"
                  /\ timer.woke >=
                         alerts.store[alert_id].timestamp
                         + escalation_delay(alerts.store[alert_id].severity)
                  /\ timer.current_alert.status = "active"
                  /\ ~timer.current_alert.acknowledged

(***************************************************************************)
(* KeyManagementSystem: generate_data_key, get_key and rotate_key.  db is  *)
(* the table encryption_keys (key id -> record), cache is key_cache, last  *)
(* the latest call.  A restart of the process empties the cache.           *)
(***************************************************************************)
KeyTypes == {"AES-256", "AES-128", "DES"}
\* The random tokens secrets.token_bytes can return.
Tokens == {1, 2}
master_key == "master"

\* Bytes of key material per key type; 0 for an unsupported type.
KeyBytes(key_type) ==
    CASE key_type = "AES-256" -> 32
      [] key_type = "AES-192" -> 24
      [] key_type = "AES-128" -> 16
      [] OTHER -> 0

_encrypt_with_master_key(data) == [sealed |-> data, under |-> master_key]
_decrypt_with_master_key(encrypted) ==
    IF encrypted.under = master_key
    THEN encrypted.sealed
    ELSE [bytes |-> 0, token |-> 0]

\* Every variable of the platform except keys.
notKeys == <<limiter, workers, sessions, operations, alerts, install>>

InitKeys ==
    /\ MessagingNotConstructed
    /\ keys = [db |-> << >>, cache |-> << >>, last |-> [op |-> "none"]]
    /\ limiter = NotConstructed
    /\ workers = NotConstructed
    /\ sessions = NotConstructed
    /\ operations = NotConstructed
    /\ alerts = NotConstructed
    /\ install = NotConstructed

\* The state after generate_data_key stored and cached a new key.
generate_data_key(state, key_id, key_type, token) ==
    LET key_material == [bytes |-> KeyBytes(key_type), token |-> token]
        key_record == [key_id |-> key_id,
                       key_type |-> key_type,
                       encrypted_key |->
                           _encrypt_with_master_key(key_material),
                       status |-> "active",
                       version |-> 1]
    IN  [state EXCEPT
            !.db = Put(@, key_id, key_record),
            !.cache = Put(@, key_id, [plaintext |-> key_material,
                                      record |-> key_record])]

\* The key material get_key returns for a key of the database.
get_key(state, key_id) ==
    IF key_id \in DOMAIN state.cache
    THEN state.cache[key_id].plaintext
    ELSE _decrypt_with_master_key(state.db[key_id].encrypted_key)

\* A new process on the same key database: key_cache = {}.
RestartKeyManagement ==
    /\ keys.cache # << >>
    /\ keys' = [keys EXCEPT !.cache = << >>]
    /\ UNCHANGED <<messaging, notKeys>>

GenerateDataKey ==
    /\ Cardinality(DOMAIN keys.db) < MaxKeys
    /\ \E key_type \in KeyTypes, token \in Tokens :
          LET key_id == Cardinality(DOMAIN keys.db) + 1
          IN  IF KeyBytes(key_type) = 0
              THEN keys' = [keys EXCEPT
                       !.last = [op |-> "generate",
                                 raised |-> "ValueError"]]
              ELSE keys' =
                       [generate_data_key(keys, key_id, key_type, token)
                           EXCEPT !.last = [op |-> "generate",
                                            raised |-> "",
                                            out |-> key_id]]
    /\ UNCHANGED <<messaging, notKeys>>

GetKey ==
    /\ \E key_id \in 1..MaxKeys :
          IF key_id \notin DOMAIN keys.db
          THEN keys' = [keys EXCEPT
                   !.last = [op |-> "get", key_id |-> key_id,
                             raised |-> "KeyError"]]
          ELSE keys' = [keys EXCEPT
                   !.cache = IF key_id \in DOMAIN @ THEN @
                             ELSE Put(@, key_id,
                                      [plaintext |-> get_key(keys, key_id),
                                       record |-> keys.db[key_id]]),
                   !.last = [op |-> "get", key_id |-> key_id,
                             raised |-> "",
                             out |-> get_key(keys, key_id)]]
    /\ UNCHANGED <<messaging, notKeys>>

\* rotate_key that stores the new key material in the old record.
RotateKey_in_place ==
    /\ Cardinality(DOMAIN keys.db) < MaxKeys
    /\ \E key_id \in DOMAIN keys.db, token \in Tokens :
          LET old_key_record == keys.db[key_id]
              new_key_id == Cardinality(DOMAIN keys.db) + 1
              generated == generate_data_key(keys, new_key_id,
                                             old_key_record.key_type, token)
          IN  keys' = [generated EXCEPT
                  !.db[key_id] =
                      [key_id |-> key_id,
                       key_type |-> old_key_record.key_type,
                       encrypted_key |->
                           generated.db[new_key_id].encrypted_key,
                       status |-> "deprecated",
                       version |-> old_key_record.version,
                       superseded_by |-> new_key_id],
                  !.cache = Del(@, key_id),
                  !.last = [op |-> "rotate", key_id |-> key_id,
                            raised |-> "",
                            plaintext |-> get_key(keys, key_id),
                            out |-> new_key_id]]
    /\ UNCHANGED <<messaging, notKeys>>

\* rotate_key(key_id) for a key of the database, and for an unknown key.
RotateKey ==
    /\ Cardinality(DOMAIN keys.db) < MaxKeys
    /\ \E key_id \in 1..MaxKeys, token \in Tokens :
          IF key_id \notin DOMAIN keys.db
          THEN keys' = [keys EXCEPT
                   !.last = [op |-> "rotate", key_id |-> key_id,
                             raised |-> "KeyError"]]
          ELSE
          LET old_key_record == keys.db[key_id]
              new_key_id == Cardinality(DOMAIN keys.db) + 1
              generated == generate_data_key(keys, new_key_id,
                                             old_key_record.key_type, token)
          IN  keys' = [generated EXCEPT
                  !.db[key_id] =
                      [key_id |-> key_id,
                       key_type |-> old_key_record.key_type,
                       encrypted_key |-> old_key_record.encrypted_key,
                       status |-> "deprecated",
                       version |-> old_key_record.version,
                       superseded_by |-> new_key_id],
                  !.last = [op |-> "rotate", key_id |-> key_id,
                            raised |-> "",
                            plaintext |-> get_key(keys, key_id),
                            out |-> new_key_id]]
    /\ UNCHANGED <<messaging, notKeys>>

NextKeys ==
    \/ RestartKeyManagement
    \/ GenerateDataKey
    \/ GetKey
    \/ RotateKey

SpecKeys == InitKeys /\ [][NextKeys]_vars

(***************************************************************************)
(* Properties of the key management system, checked under SpecKeys.        *)
(***************************************************************************)
\* C29: after a rotate_key call that returned, the record of the rotated
\* key is deprecated and superseded by the returned key, the returned key is
\* active and of the same key type, and get_key of the rotated key yields
\* the key material it yielded before the rotation.
C29_RotationKeepsOldKey ==
    (keys.last.op = "rotate" /\ keys.last.raised = "") =>
        LET old == keys.db[keys.last.key_id]
            new == keys.db[keys.last.out]
        IN  /\ old.status = "deprecated"
            /\ old.superseded_by = keys.last.out
            /\ keys.last.out # keys.last.key_id
            /\ new.status = "active"
            /\ new.key_type = old.key_type
            /\ get_key(keys, keys.last.key_id) = keys.last.plaintext
            /\ get_key(keys, keys.last.key_id) # [bytes |-> 0, token |-> 0]

\* A key was rotated to a key with other key material while its own
\* material was not in the cache.
C29_Witness ==
    /\ keys.last.op = "rotate"
    /\ keys.last.raised = ""
    /\ keys.last.key_id \notin DOMAIN keys.cache
    /\ get_key(keys, keys.last.out) # keys.last.plaintext

(***************************************************************************)
(* UninstallMenu.execute_uninstall and UninstallManager.execute_uninstall. *)
(* files are the entries present under base_path, initial the entries      *)
(* present when the menu was opened, copied the entries in the backup      *)
(* directory, pc the position of the call, step the index of the entry the *)
(* backup or the removal handles next.                                     *)
(***************************************************************************)
directories == <<"ai_agents", "core", "ml_models", "cli",
                 "installation", "security", "utils", "data">>
files == <<"telegram_osint.db", "telegram_osint.log",
           "requirements.txt", "pyproject.toml", "Makefile">>
\* What _remove_installation_files removes, in its order.
RemovalTargets == directories \o files \o <<"__pycache__">>
\* What _create_backup copies, in its order.
BackupSources == <<"telegram_osint.db", "config", "logs">>

Elements(seq) == {seq[i] : i \in 1..Len(seq)}

\* The installations the uninstaller is run on.
Installations ==
    {Elements(RemovalTargets) \cup Elements(BackupSources),
     Elements(directories) \cup {"config", "Makefile"},
     {"core", "telegram_osint.db", "logs"}}

\* What the user types at the confirmation prompt.
ConfirmInputs == {"CONFIRM UNINSTALL", "confirm uninstall", "yes", ""}

\* Every variable of the platform except install.
notInstall == <<limiter, workers, sessions, operations, alerts, keys>>

InitUninstall ==
    /\ MessagingNotConstructed
    /\ \E installation \in Installations, backup \in BOOLEAN :
          install = [files |-> installation,
                     initial |-> installation,
                     copied |-> {},
                     backup |-> backup,
                     backup_state |-> "not run",
                     confirm |-> "",
                     pc |-> "confirm",
                     step |-> 1,
                     out |-> "pending"]
    /\ limiter = NotConstructed
    /\ workers = NotConstructed
    /\ sessions = NotConstructed
    /\ operations = NotConstructed
    /\ alerts = NotConstructed
    /\ keys = NotConstructed

\* The confirmation prompt of UninstallMenu.execute_uninstall.
ConfirmUninstall ==
    /\ install.pc = "confirm"
    /\ \E confirm \in ConfirmInputs :
          install' = [install EXCEPT
              !.confirm = confirm,
              !.pc = IF confirm # "CONFIRM UNINSTALL" THEN "returned"
                     ELSE IF install.backup THEN "backup"
                     ELSE "remove",
              !.backup_state = IF confirm = "CONFIRM UNINSTALL"
                                  /\ install.backup
                               THEN "running" ELSE @,
              !.out = IF confirm # "CONFIRM UNINSTALL" THEN "False" ELSE @]
    /\ UNCHANGED <<messaging, notInstall>>

\* _create_backup copies its next source when it exists.
CreateBackupCopy ==
    /\ install.pc = "backup"
    /\ LET source == BackupSources[install.step]
           last_one == install.step = Len(BackupSources)
       IN  install' = [install EXCEPT
               !.copied = IF source \in install.files
                          THEN @ \cup {source} ELSE @,
               !.step = IF last_one THEN 1 ELSE @ + 1,
               !.backup_state = IF last_one THEN "completed" ELSE @,
               !.pc = IF last_one THEN "remove" ELSE @]
    /\ UNCHANGED <<messaging, notInstall>>

\* The backup raises and the uninstallation goes on all the same.
CreateBackupRaises_ignored ==
    /\ install.pc = "backup"
    /\ install' = [install EXCEPT
          !.backup_state = "failed",
          !.step = 1,
          !.pc = "remove"]
    /\ UNCHANGED <<messaging, notInstall>>

\* mkdir or a copy of _create_backup raises: execute_uninstall prints the
\* error and returns False.
CreateBackupRaises ==
    /\ install.pc = "backup"
    /\ install' = [install EXCEPT
          !.backup_state = "failed",
          !.pc = "returned",
          !.out = "False"]
    /\ UNCHANGED <<messaging, notInstall>>

\* _remove_installation_files removes its next target when it exists.
RemoveInstallationFile ==
    /\ install.pc = "remove"
    /\ LET target == RemovalTargets[install.step]
           last_one == install.step = Len(RemovalTargets)
       IN  install' = [install EXCEPT
               !.files = @ \ {target},
               !.step = IF last_one THEN 1 ELSE @ + 1,
               !.pc = IF last_one THEN "record" ELSE @]
    /\ UNCHANGED <<messaging, notInstall>>

\* rmtree or unlink raises on a target that exists.
RemoveInstallationFileRaises ==
    /\ install.pc = "remove"
    /\ RemovalTargets[install.step] \in install.files
    /\ install' = [install EXCEPT !.pc = "returned", !.out = "False"]
    /\ UNCHANGED <<messaging, notInstall>>

\* _record_uninstallation returns or raises.
RecordUninstallation ==
    /\ install.pc = "record"
    /\ \E raised \in BOOLEAN :
          install' = [install EXCEPT
              !.pc = "returned",
              !.out = IF raised THEN "False" ELSE "True"]
    /\ UNCHANGED <<messaging, notInstall>>

NextUninstall ==
    \/ ConfirmUninstall
    \/ CreateBackupCopy
    \/ CreateBackupRaises
    \/ RemoveInstallationFile
    \/ RemoveInstallationFileRaises
    \/ RecordUninstallation

SpecUninstall == InitUninstall /\ [][NextUninstall]_vars

(***************************************************************************)
(* Properties of the uninstaller, checked under SpecUninstall.             *)
(***************************************************************************)
\* C30: an entry of the installation is missing only after the exact
\* confirmation was typed and, when a backup was requested, after the
\* backup completed; after a failed backup and after a refused confirmation
\* the call has returned False and every entry is in place.
C30_RemovalOnlyAfterConfirmAndBackup ==
    /\ install.files # install.initial =>
          /\ install.confirm = "CONFIRM UNINSTALL"
          /\ install.backup => install.backup_state = "completed"
    /\ install.backup_state = "failed" =>
          /\ install.out = "False"
          /\ install.files = install.initial
    /\ (install.pc # "confirm"
          /\ install.confirm # "CONFIRM UNINSTALL") =>
          /\ install.out = "False"
          /\ install.files = install.initial
          /\ install.copied = {}

\* An uninstallation with backup has returned True: the backup held the
\* database before entries were removed.
C30_Witness ==
    /\ install.pc = "returned"
    /\ install.out = "True"
    /\ install.backup
    /\ install.backup_state = "completed"
    /\ "telegram_osint.db" \in install.copied
    /\ install.files # install.initial

====
